---- MODULE Spec2Model ----
(***************************************************************************)
(* Sharpe-ratio STARK: prover pipeline, Fiat-Shamir channel, proof parser  *)
(* and on-chain verifier (AIR check at the OOD point + FRI).               *)
(*                                                                         *)
(* Scaling.  TLC has 32-bit integers, so the BN254 scalar field is         *)
(* replaced by the prime field of order 12289 = 3 * 2^12 + 1.  Everything  *)
(* that depends on the field's shape is scaled with it and nothing else:   *)
(*   MODULUS          BN254 prime          ->  12289                       *)
(*   TWO_ADICITY      28                   ->  12                          *)
(*   MAX_LOG_TRACE    26 (= 28 - 2)        ->  10 (= 12 - 2)               *)
(*   a 256-bit word   (2^256 / p ~ 5.3)    ->  a 16-bit word (2^16/p ~ 5.3)*)
(*   keccak256        256-bit digest       ->  a fixed x^5 mixing          *)
(*                                             permutation over Z_32749    *)
(*   Poseidon         8 full + 57 partial  ->  2 full + 1 partial rounds   *)
(* A field element is modelled by its canonical representative 0..p-1; the *)
(* Montgomery form is an internal encoding that from_u256 / to_u256 undo.  *)
(* All buffer sizes (32, 64), the OOD width (13), the blow-up (4) and      *)
(* SHARPE_SCALE (10000) are the source's literal values.                   *)
(***************************************************************************)
EXTENDS Integers, Naturals, Sequences, FiniteSets, TLC

\* ------------------------------------------------------------------------
\* Helpers for 0-based arrays
\* ------------------------------------------------------------------------
At(arr, i) == arr[i + 1]

\* a Vec filled element by element: the function 1..n -> value as a sequence
Vec(f) == f \o << >>

Pow2(k) == 2 ^ k

SubArr(arr, from, to) == Vec([i \in 1..(to - from) |-> arr[from + i]])

SetAt(arr, i, v) == [arr EXCEPT ![i + 1] = v]

Fill(n, v) == Vec([i \in 1..n |-> v])

\* ------------------------------------------------------------------------
\* Field arithmetic  (contracts/stylus/src/field.rs)
\* ------------------------------------------------------------------------
MODULUS == 12289

WORD_LIMIT == 65536

from_u256(val) == val % MODULUS

add(a, b) == IF a + b >= MODULUS THEN a + b - MODULUS ELSE a + b

sub(a, b) == IF a >= b THEN a - b ELSE MODULUS - (b - a)

neg(a) == IF a = 0 THEN 0 ELSE MODULUS - a

mul(a, b) == (a * b) % MODULUS

\* the loop of pow over its locals s = [result, base, exp]
RECURSIVE pow_loop(_)
pow_loop(s) ==
    IF s.exp = 0 THEN s.result
    ELSE pow_loop([result |-> IF s.exp % 2 = 1 THEN mul(s.result, s.base) ELSE s.result,
                   base |-> mul(s.base, s.base),
                   exp |-> s.exp \div 2])

pow(base, exp) ==
    IF exp = 0 THEN 1 ELSE pow_loop([result |-> 1, base |-> base, exp |-> exp])

inv(a) == IF a = 0 THEN 0 ELSE pow(a, MODULUS - 2)

div(a, b) == mul(a, inv(b))

\* ------------------------------------------------------------------------
\* The same arithmetic on the representations.  The contract's Fp holds the
\* Montgomery form a * R mod p in little-endian limbs; here two limbs of
\* LIMB_BASE (four u64 in the source), R = LIMB_BASE^2 = WORD_LIMIT, and the
\* limb helpers compute in a double limb (u128 in the source).  The prover's
\* BN254Field works on plain words (U256) with wrapping operations.
\* ------------------------------------------------------------------------
LIMB_BASE == 256

\* -p^{-1} mod LIMB_BASE
MONT_INV == 255

MODULUS_LIMBS == <<MODULUS % LIMB_BASE, MODULUS \div LIMB_BASE>>

\* R^2 mod p
R2 == <<200, 42>>

Fp_ZERO == <<0, 0>>

\* R mod p
Fp_ONE == <<251, 15>>

\* (a + b*c + d) as (lo, hi)
mac(a, b, c, d) ==
    LET res == a + b * c + d
    IN  <<res % LIMB_BASE, (res \div LIMB_BASE) % LIMB_BASE>>

\* (a + b + carry) as (sum, carry_out)
adc(a, b, carry) ==
    LET res == a + b + carry
    IN  <<res % LIMB_BASE, (res \div LIMB_BASE) % LIMB_BASE>>

\* (a - b - borrow) as (diff, borrow_out): wrapping_sub in the double limb,
\* whose top bit is the borrow
sbb(a, b, borrow) ==
    LET res == (a - (b + borrow)) % (LIMB_BASE * LIMB_BASE)
    IN  <<res % LIMB_BASE, res \div ((LIMB_BASE * LIMB_BASE) \div 2)>>

\* the final conditional subtraction of MODULUS: r when the subtraction
\* borrows, the difference otherwise
cond_sub_modulus(r) ==
    LET s0 == sbb(r[1], MODULUS_LIMBS[1], 0)
        s1 == sbb(r[2], MODULUS_LIMBS[2], s0[2])
    IN  IF s1[2] = 1 THEN r ELSE <<s0[1], s1[1]>>

montgomery_reduce(t) ==
    LET k0 == (t[1] * MONT_INV) % LIMB_BASE
        a0 == mac(t[1], k0, MODULUS_LIMBS[1], 0)
        a1 == mac(t[2], k0, MODULUS_LIMBS[2], a0[2])
        a2 == adc(t[3], a1[2], 0)
        k1 == (a1[1] * MONT_INV) % LIMB_BASE
        b0 == mac(a1[1], k1, MODULUS_LIMBS[1], 0)
        b1 == mac(a2[1], k1, MODULUS_LIMBS[2], b0[2])
        b2 == adc(t[4], a2[2], b1[2])
    IN  cond_sub_modulus(<<b1[1], b2[1]>>)

mont_mul(a, b) ==
    LET p0 == mac(0, a[1], b[1], 0)
        p1 == mac(0, a[2], b[1], p0[2])
        q1 == mac(p1[1], a[1], b[2], 0)
        q2 == mac(p1[2], a[2], b[2], q1[2])
    IN  montgomery_reduce(<<p0[1], q1[1], q2[1], q2[2]>>)

as_limbs(val) == <<val % LIMB_BASE, (val \div LIMB_BASE) % LIMB_BASE>>

from_limbs(limbs) == limbs[1] + LIMB_BASE * limbs[2]

Fp_from_u256(val) == mont_mul(as_limbs(val), R2)

Fp_to_u256(a) == from_limbs(mont_mul(a, <<1, 0>>))

Fp_add(a, b) ==
    LET d0 == adc(a[1], b[1], 0)
        d1 == adc(a[2], b[2], d0[2])
    IN  cond_sub_modulus(<<d0[1], d1[1]>>)

Fp_sub(a, b) ==
    LET d0 == sbb(a[1], b[1], 0)
        d1 == sbb(a[2], b[2], d0[2])
        mask == IF d1[2] = 1 THEN LIMB_BASE - 1 ELSE 0
        e0 == adc(d0[1], IF mask = 0 THEN 0 ELSE MODULUS_LIMBS[1], 0)
        e1 == adc(d1[1], IF mask = 0 THEN 0 ELSE MODULUS_LIMBS[2], e0[2])
    IN  <<e0[1], e1[1]>>

Fp_neg_without_borrow(a) ==
    IF a = Fp_ZERO THEN Fp_ZERO
    ELSE LET d0 == sbb(MODULUS_LIMBS[1], a[1], 0)
             d1 == sbb(MODULUS_LIMBS[2], a[2], 0)
         IN  <<d0[1], d1[1]>>

Fp_neg(a) ==
    IF a = Fp_ZERO THEN Fp_ZERO
    ELSE LET d0 == sbb(MODULUS_LIMBS[1], a[1], 0)
             d1 == sbb(MODULUS_LIMBS[2], a[2], d0[2])
         IN  <<d0[1], d1[1]>>

Fp_mul(a, b) == mont_mul(a, b)

\* the loop of Fp::pow over its locals s = [result, b, e]
RECURSIVE Fp_pow_loop(_)
Fp_pow_loop(s) ==
    IF s.e = 0 THEN s.result
    ELSE Fp_pow_loop([result |-> IF s.e % 2 = 1 THEN Fp_mul(s.result, s.b) ELSE s.result,
                      b |-> Fp_mul(s.b, s.b),
                      e |-> s.e \div 2])

Fp_pow(base, exp) ==
    IF exp = 0 THEN Fp_ONE ELSE Fp_pow_loop([result |-> Fp_ONE, b |-> base, e |-> exp])

Fp_inv_one_at_zero(a) == IF a = Fp_ZERO THEN Fp_ONE ELSE Fp_pow(a, MODULUS - 2)

Fp_inv(a) == IF a = Fp_ZERO THEN Fp_ZERO ELSE Fp_pow(a, MODULUS - 2)

Fp_div(a, b) == Fp_mul(a, Fp_inv(b))

\* prover/src/field.rs, on words below WORD_LIMIT
wrapping_sub(a, b) == (a - b) % WORD_LIMIT

BN254Field_add(a, b) ==
    LET sum == (a + b) % WORD_LIMIT
        overflow == a + b >= WORD_LIMIT
    IN  IF overflow \/ sum >= MODULUS THEN wrapping_sub(sum, MODULUS) ELSE sum

BN254Field_sub(a, b) ==
    IF a >= b THEN wrapping_sub(a, b) ELSE wrapping_sub(MODULUS, wrapping_sub(b, a))

\* U256::mul_mod: the product of the two words reduced by the modulus, the
\* factors reduced first so that the product stays a machine integer here
BN254Field_mul(a, b) == ((a % MODULUS) * (b % MODULUS)) % MODULUS

RECURSIVE BN254Field_pow_loop(_)
BN254Field_pow_loop(s) ==
    IF s.e = 0 THEN s.result
    ELSE BN254Field_pow_loop([result |-> IF s.e % 2 = 1 THEN BN254Field_mul(s.result, s.b)
                                         ELSE s.result,
                              b |-> BN254Field_mul(s.b, s.b),
                              e |-> s.e \div 2])

BN254Field_pow(base, exp) ==
    IF exp = 0 THEN 1 ELSE BN254Field_pow_loop([result |-> 1, b |-> base, e |-> exp])

BN254Field_inv(a) == IF a = 0 THEN 0 ELSE BN254Field_pow(a, wrapping_sub(MODULUS, 2))

BN254Field_div(a, b) == BN254Field_mul(a, BN254Field_inv(b))

BN254Field_neg(a) == IF a = 0 THEN 0 ELSE wrapping_sub(MODULUS, a)

BN254Field_reduce(a) == IF a >= MODULUS THEN wrapping_sub(a, MODULUS) ELSE a

\* ------------------------------------------------------------------------
\* Hash of two field elements  (contracts/stylus/src/lib.rs, prover keccak.rs)
\* ------------------------------------------------------------------------
KECCAK_Q == 32749

keccak_f(x) == LET x2 == (x * x) % KECCAK_Q
               IN  (((x2 * x2) % KECCAK_Q) * x) % KECCAK_Q

\* three rounds over the 64-byte block (a, b): s = [lane, round]
RECURSIVE keccak_rounds(_, _)
keccak_rounds(s, block) ==
    IF s.round >= 3 THEN s.lane
    ELSE keccak_rounds(
             [lane |-> keccak_f((s.lane + block[(s.round % 2) + 1] + 7 + 4 * s.round) % KECCAK_Q),
              round |-> s.round + 1], block)

keccak256(a, b) ==
    keccak_rounds([lane |-> 0, round |-> 0], <<a % KECCAK_Q, b % KECCAK_Q>>)

keccak_hash_two(a, b) == from_u256(keccak256(a, b))

\* ------------------------------------------------------------------------
\* Poseidon hash of two field elements, the hash of the channel and of the
\* Merkle trees  (contracts/stylus/src/poseidon/mod.rs, prover/src/poseidon.rs)
\* The round counts are scaled 8 -> 2 and 57 -> 1; the constants module is
\* not part of the sources, so small constants stand for it.
\* ------------------------------------------------------------------------
POSEIDON_T == 3

FULL_ROUNDS == 2

PARTIAL_ROUNDS == 1

ROUND_CONSTANTS == <<3, 20, 37, 54, 71, 88, 105, 122, 139>>

MDS_MATRIX == << <<2, 1, 1>>, <<1, 2, 1>>, <<1, 1, 3>> >>

sbox(x) == LET x2 == mul(x, x)
               x4 == mul(x2, x2)
           IN  mul(x4, x)

\* for i in 0..T { state[i] = add(state[i], ROUND_CONSTANTS[round_ctr + i]) }
add_round_constants(state, round_ctr) ==
    Vec([i \in 1..POSEIDON_T |-> add(state[i], At(ROUND_CONSTANTS, round_ctr + i - 1))])

\* the inner loop of mds_multiply for row i, over s = [result, j]
RECURSIVE mds_row(_, _, _)
mds_row(s, state, i) ==
    IF s.j >= POSEIDON_T THEN s.result
    ELSE mds_row([result |-> add(s.result, mul(At(At(MDS_MATRIX, i), s.j), At(state, s.j))),
                  j |-> s.j + 1], state, i)

mds_multiply(state) ==
    Vec([i \in 1..POSEIDON_T |-> mds_row([result |-> 0, j |-> 0], state, i - 1)])

full_round(state, round_ctr) ==
    LET t == add_round_constants(state, round_ctr)
    IN  mds_multiply(Vec([i \in 1..POSEIDON_T |-> sbox(t[i])]))

partial_round(state, round_ctr) ==
    LET t == add_round_constants(state, round_ctr)
    IN  mds_multiply(Vec([i \in 1..POSEIDON_T |-> IF i = 1 THEN sbox(t[i]) ELSE t[i]]))

\* the three round loops of hash_two over s = [state, round_ctr, r]
RECURSIVE poseidon_rounds(_)
poseidon_rounds(s) ==
    LET half_full == FULL_ROUNDS \div 2
    IN  IF s.r >= FULL_ROUNDS + PARTIAL_ROUNDS THEN s.state[1]
        ELSE poseidon_rounds(
                 [state |-> IF s.r < half_full \/ s.r >= half_full + PARTIAL_ROUNDS
                            THEN full_round(s.state, s.round_ctr)
                            ELSE partial_round(s.state, s.round_ctr),
                  round_ctr |-> s.round_ctr + POSEIDON_T,
                  r |-> s.r + 1])

PoseidonHasher_hash_two(a, b) ==
    poseidon_rounds([state |-> <<0, a, b>>, round_ctr |-> 0, r |-> 0])

\* ------------------------------------------------------------------------
\* Evaluation domain  (contracts/stylus/src/stark/domain.rs)
\* ------------------------------------------------------------------------
GENERATOR_2_28 == 1331

TWO_ADICITY == 12

domain_generator_asserts(log_size) == log_size <= TWO_ADICITY

domain_generator(log_size) == pow(GENERATOR_2_28, Pow2(TWO_ADICITY - log_size))

evaluate_at(gen, index) == pow(gen, index)

\* ------------------------------------------------------------------------
\* Merkle path verification  (contracts/stylus/src/merkle.rs)
\* ------------------------------------------------------------------------
\* the loop of verify over its locals s = [current, i]
RECURSIVE merkle_walk(_, _, _)
merkle_walk(s, path, indices) ==
    IF s.i >= Len(path) THEN s.current
    ELSE merkle_walk([current |-> IF At(indices, s.i)
                                  THEN PoseidonHasher_hash_two(At(path, s.i), s.current)
                                  ELSE PoseidonHasher_hash_two(s.current, At(path, s.i)),
                      i |-> s.i + 1],
                     path, indices)

MerkleVerifier_verify(root, leaf, path, indices) ==
    IF Len(path) # Len(indices) THEN FALSE
    ELSE IF Len(path) = 0 THEN leaf = root
    ELSE merkle_walk([current |-> leaf, i |-> 0], path, indices) = root

\* ------------------------------------------------------------------------
\* Fiat-Shamir channel, verifier side  (contracts/stylus/src/stark/channel.rs)
\* A channel is [state, counter]; log is a ghost record of the calls made.
\* ------------------------------------------------------------------------
Channel_new(seed) == [state |-> seed, counter |-> 0, log |-> << <<"new", seed>> >>]

Channel_commit_keeps_counter(ch, value) ==
    [state |-> PoseidonHasher_hash_two(ch.state, value), counter |-> ch.counter,
     log |-> Append(ch.log, <<"commit", value>>)]

Channel_commit(ch, value) ==
    [state |-> PoseidonHasher_hash_two(ch.state, value), counter |-> 0,
     log |-> Append(ch.log, <<"commit", value>>)]

draw_value(ch) == PoseidonHasher_hash_two(ch.state, ch.counter)

Channel_draw_felt(ch) ==
    [state |-> ch.state, counter |-> ch.counter + 1,
     log |-> Append(ch.log, <<"draw", draw_value(ch)>>)]

\* n successive draw_felt calls: the channel after them, and the values drawn.
RECURSIVE draw_n(_, _)
draw_n(s, n) ==
    IF Len(s.vals) >= n THEN s
    ELSE draw_n([ch |-> Channel_draw_felt(s.ch), vals |-> Append(s.vals, draw_value(s.ch))], n)

\* for v in vals { channel.commit(v) }, over s = [ch, i]
RECURSIVE commit_all(_, _)
commit_all(s, vals) ==
    IF s.i >= Len(vals) THEN s.ch
    ELSE commit_all([ch |-> Channel_commit(s.ch, At(vals, s.i)), i |-> s.i + 1], vals)

\* core::cmp::min
min(a, b) == IF a < b THEN a ELSE b

mask_index_with_size(raw, domain_size) == raw % (domain_size + 1)

\* raw & (domain_size - 1) for a power-of-two domain_size
mask_index(raw, domain_size) == raw % domain_size

contains(indices, index) == \E i \in 1..Len(indices) : indices[i] = index

\* ------------------------------------------------------------------------
\* Fiat-Shamir channel, prover side  (prover/src/channel.rs)
\* ------------------------------------------------------------------------
prover_Channel_new(seed) == [state |-> seed, counter |-> 0, log |-> << <<"new", seed>> >>]

prover_Channel_commit_keeps_counter(ch, value) ==
    [state |-> PoseidonHasher_hash_two(ch.state, value), counter |-> ch.counter,
     log |-> Append(ch.log, <<"commit", value>>)]

prover_Channel_commit(ch, value) ==
    [state |-> PoseidonHasher_hash_two(ch.state, value), counter |-> 0,
     log |-> Append(ch.log, <<"commit", value>>)]

prover_draw_value_after_increment(ch) == PoseidonHasher_hash_two(ch.state, ch.counter + 1)

prover_draw_value(ch) == PoseidonHasher_hash_two(ch.state, ch.counter)

prover_Channel_draw_felt(ch) ==
    [state |-> ch.state, counter |-> ch.counter + 1,
     log |-> Append(ch.log, <<"draw", prover_draw_value(ch)>>)]

RECURSIVE prover_draw_n(_, _)
prover_draw_n(s, n) ==
    IF Len(s.vals) >= n THEN s
    ELSE prover_draw_n([ch |-> prover_Channel_draw_felt(s.ch),
                        vals |-> Append(s.vals, prover_draw_value(s.ch))], n)

RECURSIVE prover_commit_all(_, _)
prover_commit_all(s, vals) ==
    IF s.i >= Len(vals) THEN s.ch
    ELSE prover_commit_all([ch |-> prover_Channel_commit(s.ch, At(vals, s.i)),
                            i |-> s.i + 1], vals)

\* while indices.len() < count { draw; mask; push if new }, over s = [ch, indices]
RECURSIVE prover_draw_queries_loop(_, _, _)
prover_draw_queries_loop(s, count, domain_size) ==
    IF Len(s.indices) >= count THEN s
    ELSE LET index == mask_index(prover_draw_value(s.ch), domain_size)
         IN  prover_draw_queries_loop(
                 [ch |-> prover_Channel_draw_felt(s.ch),
                  indices |-> IF contains(s.indices, index) THEN s.indices
                              ELSE Append(s.indices, index)],
                 count, domain_size)

prover_draw_queries(ch, count, domain_size) ==
    prover_draw_queries_loop([ch |-> ch, indices |-> << >>], count, domain_size)

\* ------------------------------------------------------------------------
\* Merkle tree  (prover/src/commit.rs)
\* ------------------------------------------------------------------------
RECURSIVE log2(_)
log2(n) == IF n <= 1 THEN 0 ELSE 1 + log2(n \div 2)

\* the level loop of build over its locals s = [nodes, level_start, level_size]
RECURSIVE build_levels(_)
build_levels(s) ==
    IF s.level_size <= 1 THEN s.nodes
    ELSE LET next_size == s.level_size \div 2
             next == Vec([i \in 1..next_size |->
                        PoseidonHasher_hash_two(At(s.nodes, s.level_start + 2 * (i - 1)),
                                                At(s.nodes, s.level_start + 2 * (i - 1) + 1))])
         IN  build_levels([nodes |-> s.nodes \o next,
                           level_start |-> s.level_start + s.level_size,
                           level_size |-> next_size])

MerkleTree_build(leaves) ==
    [nodes |-> build_levels([nodes |-> leaves, level_start |-> 0,
                             level_size |-> Len(leaves)]),
     num_leaves |-> Len(leaves), depth |-> log2(Len(leaves))]

MerkleTree_root(tree) == tree.nodes[Len(tree.nodes)]

\* the level loop of auth_path over s = [path, indices, idx, level_start, level_size]
RECURSIVE auth_path_loop(_, _)
auth_path_loop(tree, s) ==
    IF Len(s.path) >= tree.depth THEN [path |-> s.path, indices |-> s.indices]
    ELSE LET sibling_idx == IF s.idx % 2 = 0 THEN s.idx + 1 ELSE s.idx - 1
         IN  auth_path_loop(tree,
                 [path |-> Append(s.path, At(tree.nodes, s.level_start + sibling_idx)),
                  indices |-> Append(s.indices, s.idx % 2 = 1),
                  idx |-> s.idx \div 2,
                  level_start |-> s.level_start + s.level_size,
                  level_size |-> s.level_size \div 2])

MerkleTree_auth_path_bits_flipped(tree, leaf_index) ==
    LET auth == auth_path_loop(tree, [path |-> << >>, indices |-> << >>, idx |-> leaf_index,
                                      level_start |-> 0, level_size |-> tree.num_leaves])
    IN  [auth EXCEPT !.indices = Vec([k \in 1..Len(auth.indices) |-> ~auth.indices[k]])]

MerkleTree_auth_path(tree, leaf_index) ==
    auth_path_loop(tree, [path |-> << >>, indices |-> << >>, idx |-> leaf_index,
                          level_start |-> 0, level_size |-> tree.num_leaves])

commit_column(values) == MerkleTree_build(values)

\* leaf_i = H(H(...H(H(c0[i], c1[i]), c2[i])...), c5[i])
RECURSIVE fold_row(_, _, _)
fold_row(s, cols, i) ==
    IF s.j > Len(cols) THEN s.leaf
    ELSE fold_row([leaf |-> keccak_hash_two(s.leaf, cols[s.j][i]), j |-> s.j + 1], cols, i)

commit_trace_multi(cols) ==
    MerkleTree_build(Vec([i \in 1..Len(cols[1]) |->
        fold_row([leaf |-> keccak_hash_two(cols[1][i], cols[2][i]), j |-> 3], cols, i)]))

\* ------------------------------------------------------------------------
\* Prover: evaluation domains and FFT  (prover/src/domain.rs)
\* ------------------------------------------------------------------------
get_domain(log_size) ==
    LET gen == domain_generator(log_size)
    IN  Vec([i \in 1..Pow2(log_size) |-> pow(gen, i - 1)])

RECURSIVE reverse_bits(_, _, _)
reverse_bits(i, log_n, acc) ==
    IF log_n = 0 THEN acc ELSE reverse_bits(i \div 2, log_n - 1, 2 * acc + (i % 2))

bit_reverse_permutation(a, log_n) ==
    Vec([i \in 1..Len(a) |-> At(a, reverse_bits(i - 1, log_n, 0))])

\* one pass s of the butterfly loops, twiddle w_m
butterfly_stage(a, s, w_m) ==
    LET m == Pow2(s + 1)
        half_m == m \div 2
    IN  Vec([i \in 1..Len(a) |->
            LET idx == i - 1
                j == idx % m
                k == idx - j
            IN  IF j < half_m
                THEN add(At(a, k + j), mul(pow(w_m, j), At(a, k + j + half_m)))
                ELSE sub(At(a, k + j - half_m), mul(pow(w_m, j - half_m), At(a, k + j)))])

\* the stage loop over its locals st = [a, s]
RECURSIVE fft_stages(_, _)
fft_stages(st, log_size) ==
    IF st.s >= log_size THEN st.a
    ELSE fft_stages([a |-> butterfly_stage(st.a, st.s, domain_generator(st.s + 1)),
                     s |-> st.s + 1], log_size)

fft(coeffs, log_size) ==
    IF Len(coeffs) = 1 THEN coeffs
    ELSE fft_stages([a |-> bit_reverse_permutation(coeffs, log_size), s |-> 0], log_size)

RECURSIVE ifft_stages(_, _)
ifft_stages(st, log_size) ==
    IF st.s >= log_size THEN st.a
    ELSE ifft_stages([a |-> butterfly_stage(st.a, st.s, inv(domain_generator(st.s + 1))),
                      s |-> st.s + 1], log_size)

ifft_without_scaling(evals, log_size) ==
    IF Len(evals) = 1 THEN evals
    ELSE ifft_stages([a |-> bit_reverse_permutation(evals, log_size), s |-> 0], log_size)

ifft(evals, log_size) ==
    IF Len(evals) = 1 THEN evals
    ELSE LET a == ifft_stages([a |-> bit_reverse_permutation(evals, log_size), s |-> 0],
                              log_size)
             n_inv == inv(Len(evals) % MODULUS)
         IN  Vec([i \in 1..Len(a) |-> mul(a[i], n_inv)])

\* evaluations on the final FRI domain -> coefficients
inverse_ntt(evals, log_size) == ifft(evals, log_size)

\* ------------------------------------------------------------------------
\* Prover: Sharpe trace  (prover/src/sharpe_trace.rs, mock_data.rs)
\* ------------------------------------------------------------------------
SHARPE_SCALE == 10000

basis_points_to_field(bp) == IF bp >= 0 THEN bp % MODULUS ELSE neg((-bp) % MODULUS)

RECURSIVE next_power_of_two_from(_, _)
next_power_of_two_from(n, q) == IF q >= n THEN q ELSE next_power_of_two_from(n, 2 * q)

next_power_of_two(n) == next_power_of_two_from(n, 1)

\* cum = vals[0] + ... + vals[k-1], over s = [cum, i]
RECURSIVE prefix_loop(_, _, _)
prefix_loop(s, vals, k) ==
    IF s.i >= k THEN s.cum
    ELSE prefix_loop([cum |-> add(s.cum, At(vals, s.i)), i |-> s.i + 1], vals, k)

prefix_sum(vals, k) == prefix_loop([cum |-> 0, i |-> 0], vals, k)

generate_asserts(trades) == Len(trades) >= 2

SharpeTrace_generate_padding_reset(trades, dataset_commitment) ==
    LET actual_count == Len(trades)
        trace_len == next_power_of_two(actual_count)
        ret == Vec([i \in 1..actual_count |-> basis_points_to_field(trades[i])])
        ret_sq == Vec([i \in 1..actual_count |-> mul(ret[i], ret[i])])
    IN  [cols |-> <<
            Vec([i \in 1..trace_len |-> IF i <= actual_count THEN ret[i] ELSE 0]),
            Vec([i \in 1..trace_len |-> IF i <= actual_count THEN ret_sq[i] ELSE 0]),
            Vec([i \in 1..trace_len |-> IF i <= actual_count THEN prefix_sum(ret, i) ELSE 0]),
            Vec([i \in 1..trace_len |-> IF i <= actual_count THEN prefix_sum(ret_sq, i) ELSE 0]),
            Vec([i \in 1..trace_len |-> actual_count % MODULUS]),
            Vec([i \in 1..trace_len |-> dataset_commitment]) >>,
         len |-> trace_len,
         actual_trade_count |-> actual_count]

\* cols[1..6] = return, return_sq, cumulative_return, cumulative_sq,
\*              trade_count, dataset_commitment
SharpeTrace_generate(trades, dataset_commitment) ==
    LET actual_count == Len(trades)
        trace_len == next_power_of_two(actual_count)
        ret == Vec([i \in 1..actual_count |-> basis_points_to_field(trades[i])])
        ret_sq == Vec([i \in 1..actual_count |-> mul(ret[i], ret[i])])
        row(i) == IF i <= actual_count THEN i ELSE actual_count
    IN  [cols |-> <<
            Vec([i \in 1..trace_len |-> IF i <= actual_count THEN ret[i] ELSE 0]),
            Vec([i \in 1..trace_len |-> IF i <= actual_count THEN ret_sq[i] ELSE 0]),
            Vec([i \in 1..trace_len |-> prefix_sum(ret, row(i))]),
            Vec([i \in 1..trace_len |-> prefix_sum(ret_sq, row(i))]),
            Vec([i \in 1..trace_len |-> actual_count % MODULUS]),
            Vec([i \in 1..trace_len |-> dataset_commitment]) >>,
         len |-> trace_len,
         actual_trade_count |-> actual_count]

SharpeTrace_public_inputs(trace, claimed_sharpe_sq_scaled) ==
    << trace.actual_trade_count % MODULUS,
       At(trace.cols[3], trace.actual_trade_count - 1),
       claimed_sharpe_sq_scaled,
       MerkleTree_root(MerkleTree_build(trace.cols[6])) >>

SharpeTrace_log_len(trace) == log2(trace.len)

compute_sharpe_sq_scaled(trace) ==
    LET cum_ret == At(trace.cols[3], trace.actual_trade_count - 1)
        cum_sq == At(trace.cols[4], trace.actual_trade_count - 1)
        n == trace.actual_trade_count % MODULUS
        cum_ret_sq == mul(cum_ret, cum_ret)
        numerator == mul(cum_ret_sq, SHARPE_SCALE)
        denominator == sub(mul(n, cum_sq), cum_ret_sq)
    IN  div(numerator, denominator)

\* ------------------------------------------------------------------------
\* Prover: low-degree extension and OOD evaluation  (prover/src/lib.rs)
\* ------------------------------------------------------------------------
\* acc = vals[0] + ... + vals[k-1], over s = [acc, i]
RECURSIVE sum_loop(_, _, _)
sum_loop(s, vals, k) ==
    IF s.i >= k THEN s.acc
    ELSE sum_loop([acc |-> add(s.acc, At(vals, s.i)), i |-> s.i + 1], vals, k)

field_sum(vals, k) == sum_loop([acc |-> 0, i |-> 0], vals, k)

\* for k in 0..n { if k != j { weight = weight * (domain[j] - domain[k]) } },
\* over s = [weight, k]
RECURSIVE weight_loop(_, _, _)
weight_loop(s, domain, j) ==
    IF s.k >= Len(domain) THEN s.weight
    ELSE weight_loop([weight |-> IF s.k # j
                                 THEN mul(s.weight, sub(At(domain, j), At(domain, s.k)))
                                 ELSE s.weight,
                      k |-> s.k + 1], domain, j)

barycentric_weights(domain) ==
    Vec([j \in 1..Len(domain) |->
            inv(weight_loop([weight |-> 1, k |-> 0], domain, j - 1))])

\* the numerator/denominator loop, over s = [numerator, denominator, j]
RECURSIVE barycentric_loop(_, _, _, _, _)
barycentric_loop(s, values, domain, weights, x) ==
    IF s.j >= Len(values) THEN div(s.numerator, s.denominator)
    ELSE LET diff_inv == inv(sub(x, At(domain, s.j)))
             term == mul(At(weights, s.j), diff_inv)
         IN  barycentric_loop([numerator |-> add(s.numerator, mul(term, At(values, s.j))),
                               denominator |-> add(s.denominator, term),
                               j |-> s.j + 1],
                              values, domain, weights, x)

barycentric_eval(values, domain, weights, x) ==
    LET n == Len(values)
    IN  IF \E j \in 1..n : x = domain[j]
        THEN values[CHOOSE j \in 1..n : x = domain[j] /\ \A k \in 1..(j - 1) : x # domain[k]]
        ELSE barycentric_loop([numerator |-> 0, denominator |-> 0, j |-> 0],
                              values, domain, weights, x)

evaluate_trace_on_lde(trace_col, trace_domain, lde_domain) ==
    LET weights == barycentric_weights(trace_domain)
    IN  Vec([i \in 1..Len(lde_domain) |->
            barycentric_eval(trace_col, trace_domain, weights, lde_domain[i])])

eval_at_point(values, domain, x) ==
    barycentric_eval(values, domain, barycentric_weights(domain), x)

\* alphas[1..9] against tq0..tq4, bq0..bq3
combine9(alphas, q) ==
    field_sum(Vec([j \in 1..9 |-> mul(alphas[j], q[j])]), 9)

compute_sharpe_composition_at_z(trace_ood_evals, trace_ood_evals_next, z, trace_gen, trace_len, public_inputs, alphas) ==
    LET cur(i) == At(trace_ood_evals, i)
        nxt(i) == At(trace_ood_evals_next, i)
        pi(i) == At(public_inputs, i)
        tc0 == sub(nxt(2), add(cur(2), nxt(0)))
        tc1 == sub(cur(1), mul(cur(0), cur(0)))
        tc2 == sub(nxt(3), add(cur(3), nxt(1)))
        tc3 == sub(nxt(4), cur(4))
        tc4 == 0
        g_last == pow(trace_gen, trace_len - 1)
        zerofier == div(sub(pow(z, trace_len), 1), sub(z, g_last))
        den_first == sub(z, 1)
        den_last == sub(z, g_last)
        cum_ret_sq == mul(cur(2), cur(2))
        bc3_num == sub(mul(cum_ret_sq, SHARPE_SCALE),
                       mul(pi(2), sub(mul(pi(0), cur(3)), cum_ret_sq)))
    IN  combine9(alphas,
            << div(tc0, zerofier), div(tc1, zerofier), div(tc2, zerofier),
               div(tc3, zerofier), div(tc4, zerofier),
               div(sub(cur(2), cur(0)), den_first),
               div(sub(cur(3), cur(1)), den_first),
               div(sub(cur(2), pi(1)), den_last),
               div(bc3_num, den_last) >>)

\* prover/src/sharpe_compose.rs
evaluate_sharpe_composition_on_lde(trace_lde, lde_domain, trace_gen, trace_len, public_inputs, alphas) ==
    LET lde_size == Len(lde_domain)
        blowup == lde_size \div trace_len
        trace_domain_last == pow(trace_gen, trace_len - 1)
        pi(i) == At(public_inputs, i)
        point(i) ==
            LET x == At(lde_domain, i)
                next_i == (i + blowup) % lde_size
                c(j) == At(trace_lde[j + 1], i)
                c_next(j) == At(trace_lde[j + 1], next_i)
                tc0 == sub(c_next(2), add(c(2), c_next(0)))
                tc1 == sub(c(1), mul(c(0), c(0)))
                tc2 == sub(c_next(3), add(c(3), c_next(1)))
                tc3 == sub(c_next(4), c(4))
                tc4 == sub(c_next(5), c(5))
                zerofier_den == sub(x, trace_domain_last)
                zerofier == div(sub(pow(x, trace_len), 1), zerofier_den)
                den_first == sub(x, 1)
                den_last == sub(x, trace_domain_last)
                cum_ret_sq == mul(c(2), c(2))
                bc3_num == sub(mul(cum_ret_sq, SHARPE_SCALE),
                               mul(pi(2), sub(mul(pi(0), c(3)), cum_ret_sq)))
            IN  IF zerofier_den = 0 THEN 0
                ELSE combine9(alphas,
                        << div(tc0, zerofier), div(tc1, zerofier), div(tc2, zerofier),
                           div(tc3, zerofier), div(tc4, zerofier),
                           IF den_first # 0 THEN div(sub(c(2), c(0)), den_first) ELSE 0,
                           IF den_first # 0 THEN div(sub(c(3), c(1)), den_first) ELSE 0,
                           IF den_last # 0 THEN div(sub(c(2), pi(1)), den_last) ELSE 0,
                           IF den_last # 0 THEN div(bc3_num, den_last) ELSE 0 >>)
    IN  Vec([i \in 1..lde_size |-> point(i - 1)])

\* ------------------------------------------------------------------------
\* Prover: FRI  (prover/src/fri.rs)
\* ------------------------------------------------------------------------
prover_fold_without_alpha(fx, f_neg_x, alpha, x) ==
    add(div(add(fx, f_neg_x), 2), div(sub(fx, f_neg_x), mul(2, x)))

prover_fold(fx, f_neg_x, alpha, x) ==
    LET even == div(add(fx, f_neg_x), 2)
        odd == div(sub(fx, f_neg_x), mul(2, x))
    IN  add(even, mul(alpha, odd))

\* the layer loop of fri_commit over its locals
\* s = [layers, alphas, current_evals, current_log_domain, channel]
RECURSIVE fri_commit_loop(_, _)
fri_commit_loop(s, num_layers) ==
    IF Len(s.layers) >= num_layers
    THEN LET final_poly == inverse_ntt(s.current_evals, s.current_log_domain)
         IN  [layers |-> s.layers, final_poly |-> final_poly, alphas |-> s.alphas,
              channel |-> prover_commit_all([ch |-> s.channel, i |-> 0], final_poly)]
    ELSE LET tree == MerkleTree_build(s.current_evals)
             ch1 == prover_Channel_commit(s.channel, MerkleTree_root(tree))
             alpha == prover_draw_value(ch1)
             half == Len(s.current_evals) \div 2
             gen == domain_generator(s.current_log_domain)
         IN  fri_commit_loop(
                 [layers |-> Append(s.layers,
                                 [tree |-> tree, evaluations |-> s.current_evals,
                                  log_domain_size |-> s.current_log_domain]),
                  alphas |-> Append(s.alphas, alpha),
                  current_evals |-> Vec([i \in 1..half |->
                      prover_fold(s.current_evals[i], s.current_evals[i + half], alpha,
                                  evaluate_at(gen, i - 1))]),
                  current_log_domain |-> s.current_log_domain - 1,
                  channel |-> prover_Channel_draw_felt(ch1)],
                 num_layers)

fri_commit(evaluations, channel, log_domain_size, num_layers) ==
    fri_commit_loop([layers |-> << >>, alphas |-> << >>, current_evals |-> evaluations,
                     current_log_domain |-> log_domain_size, channel |-> channel],
                    num_layers)

\* one query: walk the layers, collecting (fx, f_neg_x) and the path of fx
\* s = [values, paths, indices, q, l, idx]: the three output vectors, the
\* query and layer being opened, and the index within that layer
RECURSIVE fri_query_one(_, _)
fri_query_one(layers, s) ==
    IF s.l > Len(layers) THEN s
    ELSE LET layer == layers[s.l]
             layer_size == Len(layer.evaluations)
             half == layer_size \div 2
             fx == At(layer.evaluations, s.idx % layer_size)
             f_neg_x == At(layer.evaluations, (s.idx + half) % layer_size)
             auth == MerkleTree_auth_path(layer.tree, s.idx % layer_size)
         IN  fri_query_one(layers,
                 [s EXCEPT !.values = @ \o <<fx, f_neg_x>>,
                           !.paths = @ \o auth.path,
                           !.indices = @ \o auth.indices,
                           !.l = @ + 1,
                           !.idx = @ % half])

\* the index fri_query_one uses at each layer: s = [idx, l, used]
RECURSIVE query_layer_indices(_, _)
query_layer_indices(layers, s) ==
    IF s.l > Len(layers) THEN s.used
    ELSE LET layer_size == Len(layers[s.l].evaluations)
             half == layer_size \div 2
         IN  query_layer_indices(layers, [idx |-> s.idx % half, l |-> s.l + 1,
                                          used |-> Append(s.used, s.idx % layer_size)])

RECURSIVE fri_query_all(_, _, _)
fri_query_all(layers, query_indices, s) ==
    IF s.q > Len(query_indices) THEN s
    ELSE fri_query_all(layers, query_indices,
             [fri_query_one(layers, [s EXCEPT !.l = 1, !.idx = query_indices[s.q]])
                 EXCEPT !.q = @ + 1])

fri_query_proofs(commitment, query_indices) ==
    fri_query_all(commitment.layers, query_indices,
                  [values |-> << >>, paths |-> << >>, indices |-> << >>,
                   q |-> 1, l |-> 1, idx |-> 0])

\* ------------------------------------------------------------------------
\* Prover: wire format and the proving pipeline  (prover/src/proof.rs, lib.rs)
\* ------------------------------------------------------------------------
SerializedProof_new_sharpe(public_inputs, trace_commitment, composition_commitment, fri_layer_roots, trace_ood_evals, trace_ood_evals_next, composition_ood_eval, fri_final_poly, query_indices, query_values, query_paths, num_fri_layers, log_trace_len) ==
    [public_inputs |-> public_inputs,
     commitments |-> <<trace_commitment, composition_commitment>> \o fri_layer_roots,
     ood_values |-> trace_ood_evals \o trace_ood_evals_next \o <<composition_ood_eval>>,
     fri_final_poly |-> fri_final_poly,
     query_values |-> query_values,
     query_paths |-> query_paths,
     query_metadata |-> <<Len(query_indices), num_fri_layers, log_trace_len>> \o query_indices]

\* seed = pi[0]; for i in 1..k { seed = H(seed, pi[i]) }, over s = [seed, i]
RECURSIVE seed_loop(_, _, _)
seed_loop(s, public_inputs, k) ==
    IF s.i >= k THEN s.seed
    ELSE seed_loop([seed |-> keccak_hash_two(s.seed, At(public_inputs, s.i)), i |-> s.i + 1],
                   public_inputs, k)

seed_fold(public_inputs, k) ==
    seed_loop([seed |-> At(public_inputs, 0), i |-> 1], public_inputs, k)

BLOWUP_LOG == 2

NoChannel == [state |-> 0, counter |-> 0, log |-> << >>]

\* the locals of prove_sharpe_with_progress, before the call
NoProver ==
    [stage |-> "idle", num_queries |-> 0,
     trace |-> [cols |-> << >>, len |-> 0, actual_trade_count |-> 0],
     public_inputs |-> << >>, log_trace_len |-> 0, trace_lde |-> << >>,
     trace_commitment |-> 0, channel |-> NoChannel, z |-> 0,
     trace_ood_evals |-> << >>, trace_ood_evals_next |-> << >>, alphas |-> << >>,
     composition_ood_eval |-> 0, composition_lde |-> << >>, composition_commitment |-> 0,
     fri_commitment |-> [layers |-> << >>, final_poly |-> << >>, alphas |-> << >>],
     query_indices |-> << >>, query_values |-> << >>, query_paths |-> << >>]

\* Steps 1 and 2 (stage "trace"): the trace, its public inputs, the LDE columns
prove_sharpe_trace(w, trades, claimed_sharpe_sq_scaled, num_queries) ==
    LET trace == SharpeTrace_generate(trades, 0)
        log_trace_len == SharpeTrace_log_len(trace)
        trace_domain == get_domain(log_trace_len)
        lde_domain == get_domain(log_trace_len + BLOWUP_LOG)
    IN  [w EXCEPT
           !.stage = "trace",
           !.num_queries = num_queries,
           !.trace = trace,
           !.public_inputs = SharpeTrace_public_inputs(trace, claimed_sharpe_sq_scaled),
           !.log_trace_len = log_trace_len,
           !.trace_lde = Vec([j \in 1..6 |->
                             evaluate_trace_on_lde(trace.cols[j], trace_domain, lde_domain)])]

\* Steps 3 and 4 (stage "commit"): trace commitment, Fiat-Shamir seed, z, the
\* OOD evaluations, the nine alphas and the composition value at z
prove_sharpe_commit(w) ==
    LET trace_tree == commit_trace_multi(w.trace_lde)
        trace_commitment == MerkleTree_root(trace_tree)
        ch0 == prover_Channel_commit(prover_Channel_new(seed_fold(w.public_inputs, 4)),
                                     trace_commitment)
        z == prover_draw_value(ch0)
        ch1 == prover_Channel_draw_felt(ch0)
        trace_domain == get_domain(w.log_trace_len)
        trace_gen == domain_generator(w.log_trace_len)
        zg == mul(z, trace_gen)
        trace_ood_evals ==
            Vec([j \in 1..6 |-> eval_at_point(w.trace.cols[j], trace_domain, z)])
        trace_ood_evals_next ==
            Vec([j \in 1..6 |-> eval_at_point(w.trace.cols[j], trace_domain, zg)])
        drawn == prover_draw_n([ch |-> ch1, vals |-> << >>], 9)
    IN  [w EXCEPT
           !.stage = "commit",
           !.trace_commitment = trace_commitment,
           !.z = z,
           !.trace_ood_evals = trace_ood_evals,
           !.trace_ood_evals_next = trace_ood_evals_next,
           !.alphas = drawn.vals,
           !.channel = drawn.ch,
           !.composition_ood_eval =
               compute_sharpe_composition_at_z(trace_ood_evals, trace_ood_evals_next, z,
                   trace_gen, w.trace.len, w.public_inputs, drawn.vals)]

\* Step 5 (stage "compose"): the composition polynomial on the LDE domain
prove_sharpe_compose(w) ==
    LET composition_lde ==
            evaluate_sharpe_composition_on_lde(w.trace_lde,
                get_domain(w.log_trace_len + BLOWUP_LOG), domain_generator(w.log_trace_len),
                w.trace.len, w.public_inputs, w.alphas)
        composition_commitment == MerkleTree_root(commit_column(composition_lde))
    IN  [w EXCEPT
           !.stage = "compose",
           !.composition_lde = composition_lde,
           !.composition_commitment = composition_commitment,
           !.channel = prover_Channel_commit(w.channel, composition_commitment)]

\* Step 6 (stage "fri"): FRI commit phase, query indices, query openings
prove_sharpe_fri(w) ==
    LET log_lde_size == w.log_trace_len + BLOWUP_LOG
        num_fri_layers == log_lde_size - 2
        fri_commitment == fri_commit(w.composition_lde, w.channel, log_lde_size,
                                     num_fri_layers)
        queries == prover_draw_queries(fri_commitment.channel, w.num_queries,
                                       Pow2(log_lde_size))
        opened == fri_query_proofs(fri_commitment, queries.indices)
    IN  [w EXCEPT
           !.stage = "fri",
           !.fri_commitment = [layers |-> fri_commitment.layers,
                               final_poly |-> fri_commitment.final_poly,
                               alphas |-> fri_commitment.alphas],
           !.channel = queries.ch,
           !.query_indices = queries.indices,
           !.query_values = opened.values,
           !.query_paths = opened.paths]

\* Step 7 (stage "done"): the seven arrays
prove_sharpe_serialize(w) ==
    SerializedProof_new_sharpe(w.public_inputs, w.trace_commitment,
        w.composition_commitment,
        Vec([l \in 1..Len(w.fri_commitment.layers) |->
                MerkleTree_root(w.fri_commitment.layers[l].tree)]),
        w.trace_ood_evals, w.trace_ood_evals_next, w.composition_ood_eval,
        w.fri_commitment.final_poly, w.query_indices, w.query_values, w.query_paths,
        w.log_trace_len + BLOWUP_LOG - 2, w.log_trace_len)

\* ------------------------------------------------------------------------
\* Verifier: Sharpe AIR at the OOD point  (contracts/stylus/src/stark/sharpe_air.rs)
\* ------------------------------------------------------------------------
sharpe_scale_fp == from_u256(10000)

transition_zerofier_at(z, trace_len, trace_generator) ==
    LET numerator == sub(pow(z, trace_len), 1)
        g_last == pow(trace_generator, trace_len - 1)
        denominator == sub(z, g_last)
    IN  div(numerator, denominator)

evaluate_transition_current_return(current, next) ==
    LET tc0 == sub(At(next, 2), add(At(current, 2), At(current, 0)))
        tc1 == sub(At(current, 1), mul(At(current, 0), At(current, 0)))
        tc2 == sub(At(next, 3), add(At(current, 3), At(next, 1)))
        tc3 == sub(At(next, 4), At(current, 4))
        tc4 == 0
    IN  <<tc0, tc1, tc2, tc3, tc4>>

evaluate_transition(current, next) ==
    LET tc0 == sub(At(next, 2), add(At(current, 2), At(next, 0)))
        tc1 == sub(At(current, 1), mul(At(current, 0), At(current, 0)))
        tc2 == sub(At(next, 3), add(At(current, 3), At(next, 1)))
        tc3 == sub(At(next, 4), At(current, 4))
        tc4 == 0
    IN  <<tc0, tc1, tc2, tc3, tc4>>

evaluate_transition_ood(trace_at_z, trace_at_zg) == evaluate_transition(trace_at_z, trace_at_zg)

evaluate_boundary_quotients(trace_at_z, z, trace_domain_first, trace_domain_last, public_inputs) ==
    LET den_first == sub(z, trace_domain_first)
        den_last == sub(z, trace_domain_last)
        scale == sharpe_scale_fp
        bq0 == div(sub(At(trace_at_z, 2), At(trace_at_z, 0)), den_first)
        bq1 == div(sub(At(trace_at_z, 3), At(trace_at_z, 1)), den_first)
        bq2 == div(sub(At(trace_at_z, 2), At(public_inputs, 1)), den_last)
        cum_ret == At(trace_at_z, 2)
        cum_sq == At(trace_at_z, 3)
        cum_ret_sq == mul(cum_ret, cum_ret)
        lhs == mul(cum_ret_sq, scale)
        n_cum_sq == mul(At(public_inputs, 0), cum_sq)
        denom_inner == sub(n_cum_sq, cum_ret_sq)
        rhs == mul(At(public_inputs, 2), denom_inner)
        bq3 == div(sub(lhs, rhs), den_last)
    IN  <<bq0, bq1, bq2, bq3>>

\* Steps 3 to 5 of verify_sharpe_parsed_proof as a function of the OOD rows,
\* the point z, the public inputs and the nine alphas
verifier_composition_at_z(trace_ood_evals, trace_ood_evals_next, z, log_trace_len, public_inputs, alphas) ==
    LET trace_len == Pow2(log_trace_len)
        trace_gen == domain_generator(log_trace_len)
        transition_evals == evaluate_transition_ood(trace_ood_evals, trace_ood_evals_next)
        zerofier == transition_zerofier_at(z, trace_len, trace_gen)
        tqs == Vec([i \in 1..5 |-> div(transition_evals[i], zerofier)])
        trace_domain_last == pow(trace_gen, trace_len - 1)
        boundary_quotients == evaluate_boundary_quotients(trace_ood_evals, z, 1,
                                  trace_domain_last, public_inputs)
    IN  add(field_sum(Vec([i \in 1..5 |-> mul(alphas[i], tqs[i])]), 5),
            field_sum(Vec([i \in 1..4 |-> mul(alphas[5 + i], boundary_quotients[i])]), 4))

\* ------------------------------------------------------------------------
\* Verifier: proof parser  (contracts/stylus/src/stark/proof.rs)
\* ------------------------------------------------------------------------
LIMB_LIMIT == 4096

MAX_LOG_TRACE_LEN == 10

MAX_QUERIES == 64

OOD_LEN == 13

\* query_metadata[i].as_limbs()[0]
as_limb(word) == word % LIMB_LIMIT

\* Rust's implicit bounds check on arr[0..n)
in_bounds(arr, n) == n <= Len(arr)

RECURSIVE path_elements(_, _)
path_elements(log_domain_size, num_layers) ==
    IF num_layers = 0 THEN 0
    ELSE path_elements(log_domain_size, num_layers - 1) + (log_domain_size - (num_layers - 1))

map_from_u256(words) == Vec([i \in 1..Len(words) |-> from_u256(words[i])])

ParseNone == [tag |-> "None"]

ParsePanic == [tag |-> "panic"]

parse_sharpe_proof(commitments, ood_values, fri_final_poly, query_values, query_paths, query_metadata) ==
    IF Len(query_metadata) < 3 THEN ParseNone
    ELSE
    LET num_queries == as_limb(At(query_metadata, 0))
        num_fri_layers == as_limb(At(query_metadata, 1))
        log_trace_len == as_limb(At(query_metadata, 2))
        expected_qv == num_queries * num_fri_layers * 2
        log_domain_size == log_trace_len + 2
        expected_qp == num_queries * path_elements(log_domain_size, num_fri_layers)
    IN
    IF log_trace_len = 0 \/ log_trace_len > MAX_LOG_TRACE_LEN THEN ParseNone
    ELSE IF num_fri_layers = 0 \/ num_fri_layers > log_trace_len + 2 THEN ParseNone
    ELSE IF num_queries = 0 \/ num_queries > MAX_QUERIES THEN ParseNone
    ELSE IF Len(query_metadata) < 3 + num_queries THEN ParseNone
    ELSE IF ~in_bounds(query_metadata, 3 + num_queries) THEN ParsePanic
    ELSE IF Len(commitments) < 2 + num_fri_layers THEN ParseNone
    ELSE IF ~in_bounds(commitments, 2 + num_fri_layers) THEN ParsePanic
    ELSE IF Len(ood_values) < OOD_LEN THEN ParseNone
    ELSE IF ~in_bounds(ood_values, 13) THEN ParsePanic
    ELSE IF Len(query_values) < expected_qv THEN ParseNone
    ELSE IF Len(query_paths) < expected_qp THEN ParseNone
    ELSE [tag |-> "Some",
          trace_commitment |-> from_u256(At(commitments, 0)),
          composition_commitment |-> from_u256(At(commitments, 1)),
          fri_layer_commitments |-> map_from_u256(SubArr(commitments, 2, 2 + num_fri_layers)),
          trace_ood_evals |-> map_from_u256(SubArr(ood_values, 0, 6)),
          trace_ood_evals_next |-> map_from_u256(SubArr(ood_values, 6, 12)),
          composition_ood_eval |-> from_u256(At(ood_values, 12)),
          fri_final_poly |-> map_from_u256(fri_final_poly),
          query_indices |-> Vec([i \in 1..num_queries |-> as_limb(At(query_metadata, 3 + i - 1))]),
          num_fri_layers |-> num_fri_layers,
          log_trace_len |-> log_trace_len,
          query_values |-> map_from_u256(query_values),
          query_paths |-> map_from_u256(query_paths)]

\* ------------------------------------------------------------------------
\* Verifier: FRI  (contracts/stylus/src/stark/fri.rs)
\* ------------------------------------------------------------------------
INV_TWO == (MODULUS + 1) \div 2

BLOWUP_FACTOR == 4

ALPHAS_BUF == 32

LAYER_GENERATORS_BUF == 32

DERIVED_INDICES_BUF == 64

INDICES_BUF == 32

FriParams_new(log_trace_len, num_layers, num_queries, blowup_factor) ==
    LET log_blowup == CASE blowup_factor = 2 -> 1
                        [] blowup_factor = 4 -> 2
                        [] blowup_factor = 8 -> 3
                        [] blowup_factor = 16 -> 4
                        [] OTHER -> 2
    IN  [log_domain_size |-> log_trace_len + log_blowup, num_layers |-> num_layers,
         num_queries |-> num_queries, blowup_factor |-> blowup_factor]

fri_fold(fx, f_neg_x, alpha, x) ==
    LET even == mul(add(fx, f_neg_x), INV_TWO)
        half_diff == mul(sub(fx, f_neg_x), INV_TWO)
        odd == div(half_diff, x)
    IN  add(even, mul(alpha, odd))

\* for i in (0..len-1).rev(), over s = [result, i]
RECURSIVE horner(_, _, _)
horner(coeffs, x, s) ==
    IF s.i = 0 THEN s.result
    ELSE horner(coeffs, x, [result |-> add(mul(s.result, x), coeffs[s.i]), i |-> s.i - 1])

evaluate_polynomial_skips_constant(coeffs, x) ==
    IF Len(coeffs) <= 1 THEN 0
    ELSE horner(coeffs, x, [result |-> coeffs[Len(coeffs)], i |-> Len(coeffs) - 2])

evaluate_polynomial(coeffs, x) ==
    IF Len(coeffs) = 0 THEN 0
    ELSE horner(coeffs, x, [result |-> coeffs[Len(coeffs)], i |-> Len(coeffs) - 1])

\* Step 1 of verify_fri: per layer commit(root), draw alpha; then commit the
\* final coefficients.  status "panic" = index past layer_commitments or alphas[32].
RECURSIVE fri_draw_alphas(_, _, _)
fri_draw_alphas(s, layer_commitments, num_layers) ==
    LET i == Len(s.alphas)
    IN  IF i >= num_layers THEN s
        ELSE IF ~in_bounds(layer_commitments, i + 1) \/ i >= ALPHAS_BUF
             THEN [s EXCEPT !.status = "panic"]
        ELSE LET ch1 == Channel_commit(s.channel, At(layer_commitments, i))
             IN  fri_draw_alphas([status |-> "ok", channel |-> Channel_draw_felt(ch1),
                                  alphas |-> Append(s.alphas, draw_value(ch1))],
                                 layer_commitments, num_layers)

\* bit k of query_idx, k < depth
index_bits(query_idx, depth) ==
    Vec([k \in 1..depth |-> (query_idx \div Pow2(k - 1)) % 2 = 1])

\* the value of query_idx at each layer of Step 3: s = [query_idx, layer, used]
RECURSIVE verify_layer_indices_shifted(_, _)
verify_layer_indices_shifted(params, s) ==
    IF s.layer >= params.num_layers THEN s.used
    ELSE verify_layer_indices_shifted(params,
             [query_idx |-> s.query_idx \div 2, layer |-> s.layer + 1,
              used |-> Append(s.used, s.query_idx)])

RECURSIVE verify_layer_indices(_, _)
verify_layer_indices(params, s) ==
    IF s.layer >= params.num_layers THEN s.used
    ELSE LET half_domain == Pow2(params.log_domain_size - s.layer) \div 2
         IN  verify_layer_indices(params,
                 [query_idx |-> s.query_idx % half_domain, layer |-> s.layer + 1,
                  used |-> Append(s.used, s.query_idx)])

\* Step 3 of verify_fri, one (query, layer) iteration after another, in program
\* order.  Result: "true", "false" or "panic".
RECURSIVE fri_check_layers(_, _, _, _, _, _, _, _, _, _)
fri_check_layers(layer_commitments, query_values, query_auth_paths, final_poly_coeffs, params, alphas, value_offset, layer, query_idx, path_cursor) ==
    LET num_layers == params.num_layers
        layer_log_domain == params.log_domain_size - layer
        half_domain == Pow2(layer_log_domain) \div 2
        depth == layer_log_domain
        pair_offset == value_offset + layer * 2
    IN  IF ~in_bounds(query_values, pair_offset + 2) THEN "panic"
        ELSE IF ~in_bounds(query_auth_paths, path_cursor + depth) THEN "panic"
        ELSE IF depth > INDICES_BUF \/ ~in_bounds(layer_commitments, layer + 1) THEN "panic"
        ELSE
        LET fx == At(query_values, pair_offset)
            f_neg_x == At(query_values, pair_offset + 1)
            path_slice == SubArr(query_auth_paths, path_cursor, path_cursor + depth)
        IN  IF ~MerkleVerifier_verify(At(layer_commitments, layer), fx, path_slice,
                                      index_bits(query_idx, depth))
            THEN "false"
            ELSE
            LET x == evaluate_at(domain_generator(layer_log_domain), query_idx)
                folded == fri_fold(fx, f_neg_x, At(alphas, layer), x)
            IN  IF layer < num_layers - 1
                THEN IF ~in_bounds(query_values, value_offset + (layer + 1) * 2 + 1)
                     THEN "panic"
                     ELSE IF folded # At(query_values, value_offset + (layer + 1) * 2)
                     THEN "false"
                     ELSE fri_check_layers(layer_commitments, query_values,
                              query_auth_paths, final_poly_coeffs, params, alphas,
                              value_offset, layer + 1, query_idx % half_domain,
                              path_cursor + depth)
                ELSE LET final_gen == domain_generator(params.log_domain_size - num_layers)
                         final_x == evaluate_at(final_gen, query_idx % half_domain)
                         expected == evaluate_polynomial(final_poly_coeffs, final_x)
                     IN  IF folded # expected THEN "false" ELSE "true"

RECURSIVE fri_check_queries(_, _, _, _, _, _, _, _)
fri_check_queries(layer_commitments, query_values, query_auth_paths, query_indices, final_poly_coeffs, params, alphas, q) ==
    IF q >= params.num_queries THEN "true"
    ELSE IF ~in_bounds(query_indices, q + 1) THEN "panic"
    ELSE LET path_elements_per_query == path_elements(params.log_domain_size, params.num_layers)
             res == fri_check_layers(layer_commitments, query_values, query_auth_paths,
                        final_poly_coeffs, params, alphas, q * (params.num_layers * 2), 0,
                        At(query_indices, q), q * path_elements_per_query)
         IN  IF res # "true" THEN res
             ELSE fri_check_queries(layer_commitments, query_values, query_auth_paths,
                      query_indices, final_poly_coeffs, params, alphas, q + 1)

\* the domain_generator calls made before the query loop (layer_generators[32],
\* final_gen): do they index past the buffer or fail the assertion?
generators_panic(params) ==
    \/ \E layer \in 0..(params.num_layers - 1) :
          layer >= LAYER_GENERATORS_BUF
          \/ ~domain_generator_asserts(params.log_domain_size - layer)
    \/ params.log_domain_size < params.num_layers
    \/ ~domain_generator_asserts(params.log_domain_size - params.num_layers)

\* position-by-position comparison of derived and supplied indices
RECURSIVE indices_match(_, _, _, _)
indices_match(derived_indices, query_indices, num_queries, i) ==
    IF i >= num_queries THEN "true"
    ELSE IF i >= DERIVED_INDICES_BUF \/ ~in_bounds(query_indices, i + 1) THEN "panic"
    ELSE IF At(derived_indices, i) # At(query_indices, i) THEN "false"
    ELSE indices_match(derived_indices, query_indices, num_queries, i + 1)

\* ------------------------------------------------------------------------
\* Verifier: entry point up to the query-index loop
\* (contracts/stylus/src/stark/mod.rs)
\* ------------------------------------------------------------------------
Rejected(reason) == [status |-> "false", reason |-> reason]

Panicked(site) == [status |-> "panic", reason |-> site]

\* steps 1..6 of verify_sharpe_parsed_proof and step 1 of verify_fri
verify_sharpe_parsed_proof_begin(proof, public_inputs) ==
    LET log_trace_len == proof.log_trace_len
        trace_len == Pow2(log_trace_len)
        seed == seed_fold(public_inputs, Len(public_inputs))
        ch0 == Channel_commit(Channel_new(seed), proof.trace_commitment)
        z == draw_value(ch0)
        ch1 == Channel_draw_felt(ch0)
    IN  IF ~domain_generator_asserts(log_trace_len) THEN Panicked("domain_generator")
        ELSE
        LET trace_gen == domain_generator(log_trace_len)
            transition_evals == evaluate_transition_ood(proof.trace_ood_evals,
                                                        proof.trace_ood_evals_next)
            zerofier == transition_zerofier_at(z, trace_len, trace_gen)
            tqs == Vec([i \in 1..5 |-> div(transition_evals[i], zerofier)])
            trace_domain_last == pow(trace_gen, trace_len - 1)
            boundary_quotients == evaluate_boundary_quotients(proof.trace_ood_evals, z, 1,
                                      trace_domain_last, public_inputs)
            drawn == draw_n([ch |-> ch1, vals |-> << >>], 9)
            alphas == drawn.vals
            composition_at_z ==
                add(field_sum(Vec([i \in 1..5 |-> mul(alphas[i], tqs[i])]), 5),
                    field_sum(Vec([i \in 1..4 |-> mul(alphas[5 + i], boundary_quotients[i])]), 4))
            air == [z |-> z, alphas |-> alphas, composition_at_z |-> composition_at_z]
        IN  IF composition_at_z # proof.composition_ood_eval
            THEN [status |-> "false", reason |-> "AIRFailure", air |-> air,
                  channel |-> drawn.ch]
            ELSE
            LET ch2 == Channel_commit(drawn.ch, proof.composition_commitment)
            IN  IF Len(proof.fri_layer_commitments) = 0
                   \/ proof.composition_commitment # At(proof.fri_layer_commitments, 0)
                THEN [status |-> "false", reason |-> "FRIFailure", air |-> air,
                      channel |-> ch2]
                ELSE
                LET params == FriParams_new(log_trace_len, proof.num_fri_layers,
                                            Len(proof.query_indices), BLOWUP_FACTOR)
                    step1 == fri_draw_alphas(
                                 [status |-> "ok", channel |-> ch2, alphas |-> << >>],
                                 proof.fri_layer_commitments, params.num_layers)
                IN  IF step1.status = "panic"
                    THEN [status |-> "panic", reason |-> "layer_commitments",
                          air |-> air, channel |-> step1.channel]
                    ELSE [status |-> "drawing", reason |-> "", air |-> air,
                          channel |-> commit_all([ch |-> step1.channel, i |-> 0],
                                                 proof.fri_final_poly),
                          params |-> params, fri_alphas |-> step1.alphas]

verify_sharpe_stark_begin(public_inputs, commitments, ood_values, fri_final_poly, query_values, query_paths, query_metadata) ==
    LET parsed == parse_sharpe_proof(commitments, ood_values, fri_final_poly, query_values,
                                     query_paths, query_metadata)
    IN  IF parsed.tag = "None" THEN Rejected("MalformedProof")
        ELSE IF parsed.tag = "panic" THEN Panicked("parse_sharpe_proof")
        ELSE IF Len(public_inputs) < 4 THEN Rejected("MalformedProof")
        ELSE IF ~in_bounds(public_inputs, 4) THEN Panicked("public_inputs")
        ELSE [parsed |-> parsed] @@
             verify_sharpe_parsed_proof_begin(parsed,
                 map_from_u256(SubArr(public_inputs, 0, 4)))

\* ------------------------------------------------------------------------
\* Commit-bound entry point  (contracts/stylus/src/lib.rs, mpt.rs)
\* ------------------------------------------------------------------------
\* for _ in 0..log_size { current = keccak_hash_two(current, current) },
\* over s = [current, i]
RECURSIVE constant_root_loop(_, _)
constant_root_loop(s, log_size) ==
    IF s.i >= log_size THEN s.current
    ELSE constant_root_loop([current |-> keccak_hash_two(s.current, s.current),
                             i |-> s.i + 1], log_size)

compute_constant_merkle_root(leaf_value, log_size) ==
    constant_root_loop([current |-> leaf_value, i |-> 0], log_size)

\* the keccak hash chain over the receipt hashes, folded from the left
compute_commitment_from_hashes(fps) == seed_fold(fps, Len(fps))

\* Step 1 of verify_sharpe_with_commitment: the aggregate commitment, or the
\* early return
verify_sharpe_with_commitment_begin(receipt_hashes) ==
    IF Len(receipt_hashes) = 0 THEN [status |-> "false", expected_commitment |-> 0]
    ELSE LET expected_commitment ==
                 compute_commitment_from_hashes(map_from_u256(receipt_hashes))
         IN  IF expected_commitment = 0
             THEN [status |-> "false", expected_commitment |-> 0]
             ELSE [status |-> "stark", expected_commitment |-> expected_commitment]

verify_sharpe_with_commitment_without_cross_check(stark_valid, public_inputs, query_metadata, expected_commitment) ==
    stark_valid

\* Step 3, entered when verify_sharpe_stark has returned stark_valid
verify_sharpe_with_commitment_end(stark_valid, public_inputs, query_metadata, expected_commitment) ==
    IF stark_valid # "true" THEN stark_valid
    ELSE IF Len(public_inputs) < 4 \/ Len(query_metadata) < 3 THEN "false"
    ELSE LET pi3 == from_u256(At(public_inputs, 3))
             log_trace_len == as_limb(At(query_metadata, 2))
         IN  IF pi3 = compute_constant_merkle_root(expected_commitment, log_trace_len)
             THEN "true" ELSE "false"

\* ------------------------------------------------------------------------
\* Merkle Patricia Trie proofs  (contracts/stylus/src/mpt.rs,
\* prover/src/receipt_proof.rs).  Bytes are 0..255; a digest has HASH_LEN bytes
\* (32 in the source), sizes are integers below USIZE_LIMIT.  Option values
\* are records tagged "Some" / "None".
\* ------------------------------------------------------------------------
HASH_LEN == 6

USIZE_LIMIT == 4194304

None == [tag |-> "None"]

\* absorb the bytes one by one, over s = [lane, i]
RECURSIVE mpt_keccak_absorb(_, _)
mpt_keccak_absorb(s, data) ==
    IF s.i >= Len(data) THEN s.lane
    ELSE mpt_keccak_absorb([lane |-> keccak_f((s.lane + At(data, s.i) + 7 + 4 * s.i) % KECCAK_Q),
                            i |-> s.i + 1], data)

\* squeeze HASH_LEN bytes, over s = [lane, out]
RECURSIVE mpt_keccak_squeeze(_)
mpt_keccak_squeeze(s) ==
    IF Len(s.out) >= HASH_LEN THEN s.out
    ELSE mpt_keccak_squeeze([lane |-> keccak_f((s.lane + 11) % KECCAK_Q),
                             out |-> s.out \o <<(s.lane \div 128) % 256, s.lane % 256>>])

mpt_keccak256(data) ==
    mpt_keccak_squeeze([lane |-> mpt_keccak_absorb([lane |-> Len(data), i |-> 0], data),
                        out |-> << >>])

\* for byte in data { push(byte >> 4); push(byte & 0x0f) }
bytes_to_nibbles(data) ==
    Vec([k \in 1..(2 * Len(data)) |->
            IF k % 2 = 1 THEN data[(k + 1) \div 2] \div 16 ELSE data[k \div 2] % 16])

decode_hp_prefix(encoded) ==
    IF Len(encoded) = 0 THEN None
    ELSE LET first_nibble == At(encoded, 0) \div 16
             is_leaf == first_nibble >= 2
             is_odd == first_nibble % 2 = 1
         IN  [tag |-> "Some",
              nibbles |-> (IF is_odd THEN <<At(encoded, 0) % 16>> ELSE << >>)
                              \o bytes_to_nibbles(SubArr(encoded, 1, Len(encoded))),
              is_leaf |-> is_leaf]

\* for i in 0..len_of_len { len = (len << 8) | data[1 + i] }, over s = [len, i]
RECURSIVE be_len(_, _, _)
be_len(s, data, len_of_len) ==
    IF s.i >= len_of_len THEN s.len
    ELSE be_len([len |-> (s.len * 256 + At(data, 1 + s.i)) % USIZE_LIMIT, i |-> s.i + 1],
                data, len_of_len)

\* the span [start, end) of the payload and the bytes consumed; whole = TRUE
\* keeps the header of a list (decode_rlp_item)
rlp_long(data, len_of_len, whole) ==
    IF Len(data) < 1 + len_of_len THEN None
    ELSE LET len == be_len([len |-> 0, i |-> 0], data, len_of_len)
         IN  IF Len(data) < 1 + len_of_len + len THEN None
             ELSE [tag |-> "Some",
                   payload |-> SubArr(data, IF whole THEN 0 ELSE 1 + len_of_len,
                                      1 + len_of_len + len),
                   consumed |-> 1 + len_of_len + len]

rlp_short(data, len, whole) ==
    IF Len(data) < 1 + len THEN None
    ELSE [tag |-> "Some", payload |-> SubArr(data, IF whole THEN 0 ELSE 1, 1 + len),
          consumed |-> 1 + len]

decode_rlp_length(data) ==
    IF Len(data) = 0 THEN None
    ELSE LET prefix == At(data, 0)
         IN  IF prefix <= 127 THEN [tag |-> "Some", payload |-> <<prefix>>, consumed |-> 1]
             ELSE IF prefix <= 183 THEN rlp_short(data, prefix - 128, FALSE)
             ELSE IF prefix <= 191 THEN rlp_long(data, prefix - 183, FALSE)
             ELSE IF prefix <= 247 THEN rlp_short(data, prefix - 192, FALSE)
             ELSE rlp_long(data, prefix - 247, FALSE)

decode_rlp_item(data) ==
    IF Len(data) = 0 THEN None
    ELSE LET prefix == At(data, 0)
         IN  IF prefix <= 127 THEN [tag |-> "Some", payload |-> <<prefix>>, consumed |-> 1]
             ELSE IF prefix <= 183 THEN rlp_short(data, prefix - 128, FALSE)
             ELSE IF prefix <= 191 THEN rlp_long(data, prefix - 183, FALSE)
             ELSE IF prefix <= 247 THEN rlp_short(data, prefix - 192, TRUE)
             ELSE rlp_long(data, prefix - 247, TRUE)

\* while offset < payload.len() { items.push(decode_rlp_item(..)?) }, over
\* s = [items, offset]
RECURSIVE rlp_items_loop(_, _)
rlp_items_loop(s, payload) ==
    IF s.offset >= Len(payload) THEN [tag |-> "Some", items |-> s.items]
    ELSE LET r == decode_rlp_item(SubArr(payload, s.offset, Len(payload)))
         IN  IF r.tag = "None" THEN None
             ELSE rlp_items_loop([items |-> Append(s.items, r.payload),
                                  offset |-> s.offset + r.consumed], payload)

rlp_decode_list(data) ==
    IF Len(data) = 0 THEN None
    ELSE LET r == decode_rlp_length(data)
         IN  IF r.tag = "None" THEN None
             ELSE rlp_items_loop([items |-> << >>, offset |-> 0], r.payload)

\* the child reference followed by the walker: the child's hash, or zeros
\* for an embedded child
child_hash(child) == IF Len(child) = HASH_LEN THEN child ELSE Fill(HASH_LEN, 0)

\* one iteration of `for node_rlp in proof_nodes`, on s = [i, key_offset,
\* expected_hash]: the next loop state, or the value returned
mpt_step(s, key_nibbles, node_rlp) ==
    IF Len(node_rlp) >= HASH_LEN /\ mpt_keccak256(node_rlp) # s.expected_hash
    THEN [returned |-> None]
    ELSE LET r == rlp_decode_list(node_rlp)
         IN  IF r.tag = "None" THEN [returned |-> None]
             ELSE IF Len(r.items) = 17
             THEN IF s.key_offset >= Len(key_nibbles)
                  THEN [returned |-> [tag |-> "Some", value |-> r.items[17]]]
                  ELSE LET child == At(r.items, At(key_nibbles, s.key_offset))
                       IN  IF Len(child) = 0 THEN [returned |-> None]
                           ELSE [i |-> s.i + 1, key_offset |-> s.key_offset + 1,
                                 expected_hash |-> child_hash(child)]
             ELSE IF Len(r.items) = 2
             THEN LET hp == decode_hp_prefix(r.items[1])
                  IN  IF hp.tag = "None" THEN [returned |-> None]
                      ELSE LET n == Len(hp.nibbles)
                               key_offset == s.key_offset + n
                           IN  IF key_offset > Len(key_nibbles)
                                  \/ SubArr(key_nibbles, s.key_offset, key_offset) # hp.nibbles
                               THEN [returned |-> None]
                               ELSE IF hp.is_leaf
                               THEN IF key_offset = Len(key_nibbles)
                                    THEN [returned |-> [tag |-> "Some", value |-> r.items[2]]]
                                    ELSE [returned |-> None]
                               ELSE [i |-> s.i + 1, key_offset |-> key_offset,
                                     expected_hash |-> child_hash(r.items[2])]
             ELSE [returned |-> None]

RECURSIVE mpt_walk(_, _, _)
mpt_walk(s, key_nibbles, proof_nodes) ==
    IF s.i >= Len(proof_nodes) THEN None
    ELSE LET t == mpt_step(s, key_nibbles, At(proof_nodes, s.i))
         IN  IF "returned" \in DOMAIN t THEN t.returned
             ELSE mpt_walk(t, key_nibbles, proof_nodes)

verify_mpt_proof(root, key, proof_nodes) ==
    IF Len(proof_nodes) = 0 THEN None
    ELSE mpt_walk([i |-> 0, key_offset |-> 0, expected_hash |-> root],
                  bytes_to_nibbles(key), proof_nodes)

\* the prover's copy of the walker, on ReceiptProofData
verify_receipt_proof(proof) ==
    IF Len(proof.receipt_proof_nodes) = 0 THEN None
    ELSE mpt_walk([i |-> 0, key_offset |-> 0, expected_hash |-> proof.receipts_root],
                  bytes_to_nibbles(proof.receipt_key), proof.receipt_proof_nodes)

\* ------------------------------------------------------------------------
\* The caller's side: the seven arrays handed to verify_sharpe_stark, honest
\* (prove_sharpe's output) or rewritten by an adversary before submission.
\* ------------------------------------------------------------------------
ArrayNames == {"public_inputs", "commitments", "ood_values", "fri_final_poly",
               "query_values", "query_paths", "query_metadata"}

GetArr(c, name) ==
    CASE name = "public_inputs" -> c.public_inputs
      [] name = "commitments" -> c.commitments
      [] name = "ood_values" -> c.ood_values
      [] name = "fri_final_poly" -> c.fri_final_poly
      [] name = "query_values" -> c.query_values
      [] name = "query_paths" -> c.query_paths
      [] name = "query_metadata" -> c.query_metadata

PutArr(c, name, arr) ==
    CASE name = "public_inputs" -> [c EXCEPT !.public_inputs = arr]
      [] name = "commitments" -> [c EXCEPT !.commitments = arr]
      [] name = "ood_values" -> [c EXCEPT !.ood_values = arr]
      [] name = "fri_final_poly" -> [c EXCEPT !.fri_final_poly = arr]
      [] name = "query_values" -> [c EXCEPT !.query_values = arr]
      [] name = "query_paths" -> [c EXCEPT !.query_paths = arr]
      [] name = "query_metadata" -> [c EXCEPT !.query_metadata = arr]

\* positions an adversary rewrites: every word of public_inputs and ood_values,
\* the first and the last word of the other arrays
TamperPositions(c, name) ==
    LET n == Len(GetArr(c, name))
    IN  IF name \in {"public_inputs", "ood_values"} THEN 0..(n - 1)
        ELSE {i \in {0, n - 1} : i >= 0}

\* replacement words: another representative of the same residue class, and
\* a word of a different class
TamperWords(old) == {w \in {old + MODULUS, old + 1} : w < WORD_LIMIT}

PadTo(arr, n, w) == Vec([i \in 1..(IF n > Len(arr) THEN n ELSE Len(arr)) |->
                            IF i <= Len(arr) THEN arr[i] ELSE w])

\* the composition value the verifier will recompute for these arrays: a
\* public function of public_inputs, commitments[0], ood_values[0..12) and
\* log_trace_len, so an adversary can write it into ood_values[12]
forge_composition(c, log_trace_len) ==
    LET pis == map_from_u256(SubArr(c.public_inputs, 0, 4))
        ch0 == Channel_commit(Channel_new(seed_fold(pis, 4)), from_u256(At(c.commitments, 0)))
        z == draw_value(ch0)
        alphas == draw_n([ch |-> Channel_draw_felt(ch0), vals |-> << >>], 9).vals
        cur == map_from_u256(SubArr(c.ood_values, 0, 6))
        nxt == map_from_u256(SubArr(c.ood_values, 6, 12))
        trace_gen == domain_generator(log_trace_len)
        trace_len == Pow2(log_trace_len)
        zerofier == transition_zerofier_at(z, trace_len, trace_gen)
        tc == evaluate_transition_ood(cur, nxt)
        bq == evaluate_boundary_quotients(cur, z, 1, pow(trace_gen, trace_len - 1), pis)
    IN  add(field_sum(Vec([i \in 1..5 |-> mul(alphas[i], div(tc[i], zerofier))]), 5),
            field_sum(Vec([i \in 1..4 |-> mul(alphas[5 + i], bq[i])]), 4))

\* an honest proof relabelled with the header (num_queries, num_fri_layers,
\* log_trace_len): arrays padded to the lengths the parser asks for, layer
\* roots padded with the composition root, ood_values[12] forged when the
\* relabelled trace length is one the verifier can handle
Craft(c, nq, nl, ltl) ==
    LET old_idx == SubArr(c.query_metadata, 3, Len(c.query_metadata))
        c1 == [c EXCEPT
                 !.query_metadata = <<nq, nl, ltl>> \o PadTo(old_idx, nq, 0),
                 !.commitments = PadTo(c.commitments, 2 + nl, At(c.commitments, 1)),
                 !.query_values = PadTo(c.query_values, nq * nl * 2, 0),
                 !.query_paths = PadTo(c.query_paths, nq * path_elements(ltl + 2, nl), 0)]
    IN  IF ltl >= 1 /\ ltl <= TWO_ADICITY
        THEN [c1 EXCEPT !.ood_values = SetAt(c.ood_values, 12, forge_composition(c1, ltl))]
        ELSE c1

\* relabellings tried, relative to the honest header (nq, nl, ltl)
CraftHeaders(c) ==
    LET nq == At(c.query_metadata, 0)
        nl == At(c.query_metadata, 1)
        ltl == At(c.query_metadata, 2)
    IN  {<<q, nl, ltl>> : q \in {0, Pow2(ltl + 2) + 1, MAX_QUERIES, MAX_QUERIES + 1}}
        \cup {<<nq, l, ltl>> : l \in {0, ltl + 2, ltl + 3}}
        \cup {<<nq, 1, t>> : t \in {0, MAX_LOG_TRACE_LEN, MAX_LOG_TRACE_LEN + 1}}
        \cup {<<1, MAX_LOG_TRACE_LEN + 2, MAX_LOG_TRACE_LEN>>}

\* a prover that binds its proof to receipt hashes: the commitment column of
\* the trace holds `column`, and public_inputs[3] is the constant-column root
\* the commit-bound entry point will predict for the hashes
declare_commitment(w, column, receipt_hashes) ==
    LET cols == [w.trace.cols EXCEPT ![6] = Vec([i \in 1..w.trace.len |-> column])]
        root == compute_constant_merkle_root(
                    compute_commitment_from_hashes(map_from_u256(receipt_hashes)),
                    w.log_trace_len)
    IN  [w EXCEPT
           !.trace.cols = cols,
           !.public_inputs = SetAt(w.public_inputs, 3, root),
           !.trace_lde = [w.trace_lde EXCEPT ![6] =
               evaluate_trace_on_lde(cols[6], get_domain(w.log_trace_len),
                                     get_domain(w.log_trace_len + BLOWUP_LOG))]]

\* ------------------------------------------------------------------------
\* State
\* ------------------------------------------------------------------------
VARIABLES
    pc,        \* "idle" | "proving" | "ready" | "drawing" | "done"
    call,      \* the seven arrays passed to verify_sharpe_stark
    origin,    \* how call was produced: prover inputs, and the rewrite applied if any
    prover,    \* locals of prove_sharpe_with_progress, by stage
    parsed,    \* SharpeStarkProof built by parse_sharpe_proof
    channel,   \* the verifier's Channel
    air,       \* z, the nine alphas and composition_at_z
    fri,       \* verify_fri locals: params, alphas, derived_indices, written, count
    outcome,   \* "none" | "true" | "false" | "panic"
    reason,    \* which check returned false
    base,      \* outcome of verifying the unmodified arrays, once known
    bound      \* verify_sharpe_with_commitment locals: receipt_hashes, the
               \* expected commitment, and the value it returned

vars == <<pc, call, origin, prover, parsed, channel, air, fri, outcome, reason, base, bound>>

MaxQueries == 2

MaxDraws == 24

TradeVectors == { <<1, 2>>, <<5, 5>>, <<1, 2, 3>>, <<4, -1, 2, 2>> }

\* returns vectors of the provers that declare a commitment
DeclaredTrades == { <<1, 2>>, <<1, 2, 3>> }

\* receipt-hash vectors passed to verify_sharpe_with_commitment
ReceiptHashLists == { << >>, <<0>>, <<7>>, <<7, 9>> }

NoCall == [public_inputs |-> << >>, commitments |-> << >>, ood_values |-> << >>,
           fri_final_poly |-> << >>, query_values |-> << >>, query_paths |-> << >>,
           query_metadata |-> << >>]

NoRewrite == [kind |-> "none", name |-> "", pos |-> 0, w |-> 0, header |-> <<0, 0, 0>>]

NoOrigin == [trades |-> << >>, claimed |-> 0, exact |-> FALSE, rewrite |-> NoRewrite]

NoAir == [z |-> 0, alphas |-> << >>, composition_at_z |-> 0]

NoBound == [stage |-> "none", receipt_hashes |-> << >>, expected_commitment |-> 0,
            result |-> "none"]

NoFri == [params |-> FriParams_new(0, 0, 0, BLOWUP_FACTOR), alphas |-> << >>,
          derived_indices |-> << >>, written |-> 0, count |-> 0]

Init ==
    /\ pc = "idle"
    /\ call = NoCall
    /\ origin = NoOrigin
    /\ prover = NoProver
    /\ parsed = ParseNone
    /\ channel = NoChannel
    /\ air = NoAir
    /\ fri = NoFri
    /\ outcome = "none"
    /\ reason = ""
    /\ base = "none"
    /\ bound = NoBound

verifier_vars == <<parsed, channel, air, fri, outcome, reason>>

\* ------------------------------------------------------------------------
\* Actions
\* ------------------------------------------------------------------------
\* prove_sharpe is entered: Steps 1 and 2
ProveTrace(trades, offset, num_queries) ==
    /\ pc = "idle"
    /\ generate_asserts(trades)
    /\ LET exact_value == compute_sharpe_sq_scaled(SharpeTrace_generate(trades, 0))
           claimed == add(exact_value, offset)
       IN  /\ origin' = [trades |-> trades, claimed |-> claimed, exact |-> offset = 0,
                         rewrite |-> NoRewrite]
           /\ prover' = prove_sharpe_trace(prover, trades, claimed, num_queries)
    /\ pc' = "proving"
    /\ UNCHANGED <<call, verifier_vars, base, bound>>

ProveCommit ==
    /\ pc = "proving" /\ prover.stage = "trace"
    /\ prover' = prove_sharpe_commit(prover)
    /\ UNCHANGED <<pc, call, origin, verifier_vars, base, bound>>

ProveCompose ==
    /\ pc = "proving" /\ prover.stage = "commit"
    /\ prover' = prove_sharpe_compose(prover)
    /\ UNCHANGED <<pc, call, origin, verifier_vars, base, bound>>

ProveFri ==
    /\ pc = "proving" /\ prover.stage = "compose"
    /\ prover' = prove_sharpe_fri(prover)
    /\ UNCHANGED <<pc, call, origin, verifier_vars, base, bound>>

\* prove_sharpe returns; its result is what the caller submits
ProveDone ==
    /\ pc = "proving" /\ prover.stage = "fri"
    /\ call' = prove_sharpe_serialize(prover)
    /\ prover' = [prover EXCEPT !.stage = "done"]
    /\ pc' = "ready"
    /\ UNCHANGED <<origin, verifier_vars, base, bound>>

\* A prover that binds its proof to receipt hashes (Steps 1 and 2, then the
\* pipeline above): the commitment column holds the folded commitment or 0.
ProveDeclared(trades, zero_column, receipt_hashes) ==
    /\ pc = "idle"
    /\ generate_asserts(trades)
    /\ Len(receipt_hashes) > 0
    /\ LET claimed == compute_sharpe_sq_scaled(SharpeTrace_generate(trades, 0))
           column == IF zero_column THEN 0
                     ELSE compute_commitment_from_hashes(map_from_u256(receipt_hashes))
       IN  /\ origin' = [trades |-> trades, claimed |-> claimed, exact |-> TRUE,
                         rewrite |-> [NoRewrite EXCEPT !.kind = "declared"]]
           /\ prover' = declare_commitment(prove_sharpe_trace(prover, trades, claimed, 1),
                                           column, receipt_hashes)
    /\ pc' = "proving"
    /\ UNCHANGED <<call, verifier_vars, base, bound>>

\* the verifier's locals before a call
fresh_call ==
    /\ pc' = "ready"
    /\ parsed' = ParseNone /\ channel' = NoChannel /\ air' = NoAir /\ fri' = NoFri
    /\ outcome' = "none" /\ reason' = ""

\* After the honest arrays were verified, the caller resubmits them with one
\* word replaced.
ReplaceWord(name) ==
    /\ pc = "done" /\ origin.rewrite.kind = "none"
    /\ \E pos \in TamperPositions(call, name) :
         \E w \in TamperWords(At(GetArr(call, name), pos)) :
            /\ call' = PutArr(call, name, SetAt(GetArr(call, name), pos, w))
            /\ origin' = [origin EXCEPT !.rewrite =
                             [NoRewrite EXCEPT !.kind = "replace", !.name = name,
                                               !.pos = pos, !.w = w]]
    /\ base' = outcome
    /\ fresh_call
    /\ UNCHANGED <<prover, bound>>

\* ... with the last word of one array dropped
Truncate(name) ==
    /\ pc = "done" /\ origin.rewrite.kind = "none"
    /\ Len(GetArr(call, name)) > 0
    /\ call' = PutArr(call, name, SubArr(GetArr(call, name), 0, Len(GetArr(call, name)) - 1))
    /\ origin' = [origin EXCEPT !.rewrite =
                     [NoRewrite EXCEPT !.kind = "truncate", !.name = name]]
    /\ base' = outcome
    /\ fresh_call
    /\ UNCHANGED <<prover, bound>>

\* ... with one extra word appended to one array
Extend(name) ==
    /\ pc = "done" /\ origin.rewrite.kind = "none"
    /\ call' = PutArr(call, name, Append(GetArr(call, name), 0))
    /\ origin' = [origin EXCEPT !.rewrite =
                     [NoRewrite EXCEPT !.kind = "extend", !.name = name]]
    /\ base' = outcome
    /\ fresh_call
    /\ UNCHANGED <<prover, bound>>

\* ... relabelled with another metadata header
Relabel ==
    /\ pc = "done" /\ origin.rewrite.kind = "none"
    /\ \E h \in CraftHeaders(call) :
         /\ call' = Craft(call, h[1], h[2], h[3])
         /\ origin' = [origin EXCEPT !.rewrite =
                          [NoRewrite EXCEPT !.kind = "relabel", !.header = h]]
    /\ base' = outcome
    /\ fresh_call
    /\ UNCHANGED <<prover, bound>>

\* verify_sharpe_with_commitment is called with the arrays just verified and
\* receipt hashes: Step 1, then the call of verify_sharpe_stark
BoundStart(receipt_hashes) ==
    /\ pc = "done" /\ origin.rewrite.kind \in {"none", "declared"}
    /\ \E r \in {verify_sharpe_with_commitment_begin(receipt_hashes)} :
          /\ bound' = [stage |-> IF r.status = "stark" THEN "stark" ELSE "returned",
                       receipt_hashes |-> receipt_hashes,
                       expected_commitment |-> r.expected_commitment,
                       result |-> IF r.status = "stark" THEN "none" ELSE "false"]
          /\ pc' = IF r.status = "stark" THEN "ready" ELSE "bound"
    /\ origin' = [origin EXCEPT !.rewrite = [NoRewrite EXCEPT !.kind = "bound"]]
    /\ base' = outcome
    /\ parsed' = ParseNone /\ channel' = NoChannel /\ air' = NoAir /\ fri' = NoFri
    /\ outcome' = "none" /\ reason' = ""
    /\ UNCHANGED <<call, prover>>

\* verify_sharpe_stark has returned to verify_sharpe_with_commitment: Step 3
BoundFinish ==
    /\ pc = "done" /\ bound.stage = "stark"
    /\ bound' = [bound EXCEPT
                    !.stage = "returned",
                    !.result = verify_sharpe_with_commitment_end(outcome,
                                   call.public_inputs, call.query_metadata,
                                   bound.expected_commitment)]
    /\ pc' = "bound"
    /\ UNCHANGED <<call, origin, prover, verifier_vars, base>>

\* verify_sharpe_stark, from entry to the first iteration of the query-index
\* loop of draw_queries_into (or to an earlier return)
VerifyStart ==
    /\ pc = "ready"
    /\ \E r \in {verify_sharpe_stark_begin(call.public_inputs, call.commitments,
                    call.ood_values, call.fri_final_poly, call.query_values,
                    call.query_paths, call.query_metadata)} :
           IF r.status = "drawing"
           THEN /\ pc' = "drawing"
                /\ parsed' = r.parsed
                /\ channel' = r.channel
                /\ air' = r.air
                /\ fri' = [params |-> r.params, alphas |-> r.fri_alphas,
                           derived_indices |-> Fill(DERIVED_INDICES_BUF, 0),
                           written |-> 0,
                           count |-> min(r.params.num_queries, DERIVED_INDICES_BUF)]
                /\ UNCHANGED <<outcome, reason>>
           ELSE /\ pc' = "done"
                /\ outcome' = r.status
                /\ reason' = r.reason
                /\ parsed' = IF "parsed" \in DOMAIN r THEN r.parsed ELSE parsed
                /\ channel' = IF "channel" \in DOMAIN r THEN r.channel ELSE channel
                /\ air' = IF "air" \in DOMAIN r THEN r.air ELSE air
                /\ UNCHANGED fri
    /\ UNCHANGED <<call, origin, prover, base, bound>>

\* one iteration of `while written < count` in draw_queries_into
DrawQueryStep ==
    /\ pc = "drawing"
    /\ fri.written < fri.count
    /\ channel.counter < MaxDraws
    /\ LET raw == draw_value(channel)
           index == mask_index(raw, Pow2(fri.params.log_domain_size))
           unique == \A i \in 0..(fri.written - 1) : At(fri.derived_indices, i) # index
       IN  /\ channel' = Channel_draw_felt(channel)
           /\ IF unique
              THEN fri' = [fri EXCEPT !.derived_indices = SetAt(@, fri.written, index),
                                      !.written = @ + 1]
              ELSE fri' = fri
    /\ UNCHANGED <<pc, call, origin, prover, parsed, air, outcome, reason, base, bound>>

\* verify_fri from the return of draw_queries_into to its own return
VerifyFinish ==
    /\ pc = "drawing"
    /\ fri.written >= fri.count
    /\ LET params == fri.params
           matched == indices_match(fri.derived_indices, parsed.query_indices,
                                    params.num_queries, 0)
           res == IF fri.written # params.num_queries THEN "false"
                  ELSE IF matched # "true" THEN matched
                  ELSE IF generators_panic(params) THEN "panic"
                  ELSE fri_check_queries(parsed.fri_layer_commitments, parsed.query_values,
                           parsed.query_paths, parsed.query_indices, parsed.fri_final_poly,
                           params, fri.alphas, 0)
       IN  /\ outcome' = res
           /\ reason' = IF res = "false" THEN "FRIFailure" ELSE ""
    /\ pc' = "done"
    /\ UNCHANGED <<call, origin, prover, parsed, channel, air, fri, base, bound>>

Next ==
    \/ \E trades \in TradeVectors, offset \in {0, 1}, num_queries \in 1..MaxQueries :
          ProveTrace(trades, offset, num_queries)
    \/ ProveCommit
    \/ ProveCompose
    \/ ProveFri
    \/ ProveDone
    \/ \E trades \in DeclaredTrades, zero_column \in BOOLEAN, receipt_hashes \in ReceiptHashLists :
          ProveDeclared(trades, zero_column, receipt_hashes)
    \/ \E receipt_hashes \in ReceiptHashLists : BoundStart(receipt_hashes)
    \/ BoundFinish
    \/ \E name \in ArrayNames : ReplaceWord(name)
    \/ \E name \in ArrayNames : Truncate(name)
    \/ \E name \in ArrayNames : Extend(name)
    \/ Relabel
    \/ VerifyStart
    \/ DrawQueryStep
    \/ VerifyFinish

Spec == Init /\ [][Next]_vars

\* A call of verify_sharpe_stark runs on one thread of the host until it
\* returns: each step of the call that can be taken is eventually taken.
SpecLive ==
    /\ Init /\ [][Next]_vars
    /\ WF_vars(VerifyStart) /\ WF_vars(DrawQueryStep) /\ WF_vars(VerifyFinish)

\* ------------------------------------------------------------------------
\* A prover that keeps the layers it committed and answers the queries for
\* another final polynomial.  It commits the honest layer roots, sends other
\* final coefficients, derives the query indices the verifier will derive,
\* opens f(x) with its path as fri_query_proofs does, and writes as the last
\* layer's f(-x) the word that makes the fold meet the final polynomial.
\* ------------------------------------------------------------------------
\* while written < count { draw; mask; keep if new }, over s = [ch, indices]
RECURSIVE forge_draw_queries(_, _, _)
forge_draw_queries(s, count, domain_size) ==
    IF Len(s.indices) >= count THEN s.indices
    ELSE LET index == mask_index(draw_value(s.ch), domain_size)
         IN  forge_draw_queries([ch |-> Channel_draw_felt(s.ch),
                                 indices |-> IF contains(s.indices, index) THEN s.indices
                                             ELSE Append(s.indices, index)],
                                count, domain_size)

\* the f(-x) solving fri_fold(fx, f(-x), alpha, x) = target, where one exists
solve_partner(fx, committed, alpha, x, target) ==
    IF x = alpha THEN committed
    ELSE div(sub(mul(mul(2, x), target), mul(fx, add(x, alpha))), sub(x, alpha))

\* the last layer's f(-x) of every query rewritten for final_poly
forge_partners(values, indices, final_poly, params, alphas) ==
    LET num_layers == params.num_layers
        last == num_layers - 1
        log_last == params.log_domain_size - last
    IN  Vec([k \in 1..Len(values) |->
            LET q == (k - 1) \div (2 * num_layers)
                at == (k - 1) % (2 * num_layers)
                idx == indices[q + 1] % Pow2(log_last)
                x == evaluate_at(domain_generator(log_last), idx)
                final_x == evaluate_at(domain_generator(log_last - 1),
                                       idx % (Pow2(log_last) \div 2))
            IN  IF at # 2 * last + 1 THEN values[k]
                ELSE solve_partner(values[k - 1], values[k], At(alphas, last), x,
                                   evaluate_polynomial(final_poly, final_x))])

FinalPolyRewrites == {"shift", "extend"}

rewrite_final_poly(final_poly, kind) ==
    IF kind = "shift" THEN SetAt(final_poly, 0, add(At(final_poly, 0), 1))
    ELSE Append(final_poly, 0)

\* After the honest arrays were verified, the prover submits its layers again
\* with the final polynomial rewritten.
ForgeFinalPoly(kind) ==
    /\ pc = "done" /\ origin.rewrite.kind = "none" /\ outcome = "true"
    /\ prover.stage = "done"
    /\ \E final_poly \in {rewrite_final_poly(call.fri_final_poly, kind)} :
       \E r \in {verify_sharpe_stark_begin(call.public_inputs, call.commitments,
                    call.ood_values, final_poly, call.query_values,
                    call.query_paths, call.query_metadata)} :
          /\ r.status = "drawing"
          /\ \E indices \in {forge_draw_queries([ch |-> r.channel, indices |-> << >>],
                                   r.params.num_queries, Pow2(r.params.log_domain_size))} :
             \E opened \in {fri_query_proofs(prover.fri_commitment, indices)} :
                call' = [call EXCEPT
                           !.fri_final_poly = final_poly,
                           !.query_metadata = SubArr(@, 0, 3) \o indices,
                           !.query_values = forge_partners(opened.values, indices,
                                                r.parsed.fri_final_poly, r.params,
                                                r.fri_alphas),
                           !.query_paths = opened.paths]
    /\ origin' = [origin EXCEPT !.rewrite =
                     [NoRewrite EXCEPT !.kind = "forge", !.name = kind]]
    /\ base' = outcome
    /\ fresh_call
    /\ UNCHANGED <<prover, bound>>

NextForge ==
    \/ Next
    \/ \E kind \in FinalPolyRewrites : ForgeFinalPoly(kind)

SpecForge == Init /\ [][NextForge]_vars

\* ------------------------------------------------------------------------
\* The channel on its own: a verifier Channel (channel) and a prover Channel
\* (prover.channel) created from one seed and driven by the same calls.
\* fri holds the locals of draw_queries_into: derived_indices is the output
\* slice, params.num_queries the requested count, count the clamped one.
\* ------------------------------------------------------------------------
MaxLog == 4

Seeds == {0, 1}

CommitValues == {0, 5}

QueryCounts == {1, 2, 3}

QueryLogDomains == {1, 2}

OutputLens == {2, 4}

InitChan ==
    /\ pc = "channel"
    /\ \E seed \in Seeds :
          /\ channel = Channel_new(seed)
          /\ prover = [NoProver EXCEPT !.channel = prover_Channel_new(seed)]
    /\ call = NoCall
    /\ origin = NoOrigin
    /\ parsed = ParseNone
    /\ air = NoAir
    /\ fri = NoFri
    /\ outcome = "none"
    /\ reason = ""
    /\ base = "none"
    /\ bound = NoBound

chan_frame == <<call, origin, parsed, air, outcome, reason, base, bound>>

\* commit(value) on both channels
ChanCommit(value) ==
    /\ pc = "channel" /\ Len(channel.log) < MaxLog
    /\ channel' = Channel_commit(channel, value)
    /\ prover' = [prover EXCEPT !.channel = prover_Channel_commit(@, value)]
    /\ UNCHANGED <<pc, fri, chan_frame>>

\* draw_felt() on both channels
ChanDraw ==
    /\ pc = "channel" /\ Len(channel.log) < MaxLog
    /\ channel' = Channel_draw_felt(channel)
    /\ prover' = [prover EXCEPT !.channel = prover_Channel_draw_felt(@)]
    /\ UNCHANGED <<pc, fri, chan_frame>>

\* draw_queries_into(output, count, 1 << log_domain) is entered, with an output
\* slice of output_len entries
ChanQueries(count, log_domain, output_len) ==
    /\ pc = "channel" /\ Len(channel.log) < MaxLog
    /\ fri' = [params |-> [NoFri.params EXCEPT !.num_queries = count,
                                               !.log_domain_size = log_domain],
               alphas |-> << >>,
               derived_indices |-> Fill(output_len, 0),
               written |-> 0,
               count |-> min(count, output_len)]
    /\ pc' = "drawing"
    /\ UNCHANGED <<channel, prover, chan_frame>>

\* draw_queries_into returns written; the prover's draw_queries is then called
\* for as many indices over the same domain
ChanQueriesReturn ==
    /\ pc = "drawing"
    /\ fri.written >= fri.count
    /\ LET r == prover_draw_queries(prover.channel, fri.written,
                                    Pow2(fri.params.log_domain_size))
       IN  prover' = [prover EXCEPT !.channel = r.ch, !.query_indices = r.indices,
                                    !.num_queries = fri.written]
    /\ pc' = "channel"
    /\ UNCHANGED <<channel, fri, chan_frame>>

NextChan ==
    \/ \E value \in CommitValues : ChanCommit(value)
    \/ ChanDraw
    \/ \E count \in QueryCounts, log_domain \in QueryLogDomains, output_len \in OutputLens :
          ChanQueries(count, log_domain, output_len)
    \/ DrawQueryStep
    \/ ChanQueriesReturn

SpecChan == InitChan /\ [][NextChan]_vars

\* ------------------------------------------------------------------------
\* The Merkle tree on its own: call holds the leaf array and the leaf index,
\* prover the MerkleTree built over it and the authentication path, outcome
\* the result of MerkleVerifier::verify, base the root the verifier predicts
\* for a constant column.
\* ------------------------------------------------------------------------
MaxDepth == 3

LeafSlopes == {0, 1, 3}

LeafOffsets == {0, 5}

\* power-of-two leaf arrays; slope 0 gives the constant columns
LeafArrays ==
    { Vec([i \in 1..Pow2(k) |-> (a * (i - 1) + b) % MODULUS]) :
          a \in LeafSlopes, b \in LeafOffsets, k \in 0..MaxDepth }

NoAuth == [path |-> << >>, indices |-> << >>]

InitMerkle ==
    /\ pc = "leaves"
    /\ \E leaves \in LeafArrays : call = [leaves |-> leaves, leaf_index |-> 0]
    /\ prover = [tree |-> [nodes |-> << >>, num_leaves |-> 0, depth |-> 0], auth |-> NoAuth]
    /\ origin = NoOrigin
    /\ parsed = ParseNone
    /\ channel = NoChannel
    /\ air = NoAir
    /\ fri = NoFri
    /\ outcome = "none"
    /\ reason = ""
    /\ base = "none"
    /\ bound = NoBound

merkle_frame == <<origin, parsed, channel, air, fri, reason, bound>>

\* MerkleTree::build
MerkleBuild ==
    /\ pc = "leaves"
    /\ prover' = [prover EXCEPT !.tree = MerkleTree_build(call.leaves)]
    /\ pc' = "built"
    /\ UNCHANGED <<call, outcome, base, merkle_frame>>

\* MerkleTree::auth_path(leaf_index)
MerkleAuthPath(leaf_index) ==
    /\ pc = "built"
    /\ leaf_index < prover.tree.num_leaves
    /\ call' = [call EXCEPT !.leaf_index = leaf_index]
    /\ prover' = [prover EXCEPT !.auth = MerkleTree_auth_path(prover.tree, leaf_index)]
    /\ pc' = "path"
    /\ UNCHANGED <<outcome, base, merkle_frame>>

\* MerkleVerifier::verify(root, leaf, path, indices) on the path just produced
MerkleVerify ==
    /\ pc = "path"
    /\ outcome' = IF MerkleVerifier_verify(MerkleTree_root(prover.tree),
                                           At(call.leaves, call.leaf_index),
                                           prover.auth.path, prover.auth.indices)
                  THEN "true" ELSE "false"
    /\ pc' = "verified"
    /\ UNCHANGED <<call, prover, base, merkle_frame>>

\* compute_constant_merkle_root for a column whose leaves are all equal
MerkleConstantRoot ==
    /\ pc = "built"
    /\ \A i \in 1..Len(call.leaves) : call.leaves[i] = call.leaves[1]
    /\ base' = compute_constant_merkle_root(call.leaves[1], prover.tree.depth)
    /\ pc' = "predicted"
    /\ UNCHANGED <<call, prover, outcome, merkle_frame>>

NextMerkle ==
    \/ MerkleBuild
    \/ \E leaf_index \in 0..(Pow2(MaxDepth) - 1) : MerkleAuthPath(leaf_index)
    \/ MerkleVerify
    \/ MerkleConstantRoot

SpecMerkle == InitMerkle /\ [][NextMerkle]_vars

\* ------------------------------------------------------------------------
\* The MPT walker on its own: call holds the receipts root, the key and the
\* ordered node list handed to the walker, outcome the contract's answer and
\* base the prover's.  The proofs start as the paths of small receipt tries
\* keyed by rlp_encode_tx_index and are then rewritten in one place.
\* ------------------------------------------------------------------------
MaxIndex == 2

Receipts == { <<7>>, <<17, 34, 51>> }

ByteRewrites == { 184, 248 }

\* rlp_encode_tx_index(index) for an index of one byte
rlp_encode_tx_index(index) ==
    IF index = 0 THEN <<128>>
    ELSE IF index <= 127 THEN <<index>>
    ELSE <<129, index>>

\* RLP of a byte string and of a list of encoded items, payloads under 56 bytes
rlp_string(b) == IF Len(b) = 1 /\ b[1] <= 127 THEN b ELSE <<128 + Len(b)>> \o b

RECURSIVE rlp_concat(_)
rlp_concat(items) == IF Len(items) = 0 THEN << >> ELSE Head(items) \o rlp_concat(Tail(items))

rlp_list(items) == <<192 + Len(rlp_concat(items))>> \o rlp_concat(items)

\* hex-prefix encoding of a path, the inverse of decode_hp_prefix
hp_encode(nibbles, is_leaf) ==
    LET odd == Len(nibbles) % 2 = 1
        rest == IF odd THEN Tail(nibbles) ELSE nibbles
    IN  <<(IF is_leaf THEN 32 ELSE 0) + (IF odd THEN 16 + nibbles[1] ELSE 0)>>
            \o Vec([k \in 1..(Len(rest) \div 2) |-> 16 * rest[2 * k - 1] + rest[2 * k]])

\* the reference a parent keeps to a node: the node itself when it is shorter
\* than a digest, its digest otherwise
node_ref(node) == IF Len(node) < HASH_LEN THEN node ELSE rlp_string(mpt_keccak256(node))

leaf_node(nibbles, receipt) == rlp_list(<<rlp_string(hp_encode(nibbles, TRUE)), rlp_string(receipt)>>)

extension_node(nibbles, child) == rlp_list(<<rlp_string(hp_encode(nibbles, FALSE)), node_ref(child)>>)

\* a branch with children at two nibbles and no value
branch_node(n1, child1, n2, child2) ==
    rlp_list([k \in 1..17 |-> IF k = n1 + 1 THEN node_ref(child1)
                              ELSE IF k = n2 + 1 THEN node_ref(child2)
                              ELSE <<128>>])

mpt_call(nodes, index) ==
    [root |-> mpt_keccak256(nodes[1]), key |-> rlp_encode_tx_index(index),
     proof_nodes |-> nodes, rewritten |-> FALSE]

\* the trie of one receipt (index 0), of two (indices 0 and 1, a branch at
\* the root) and of indices 1 and MaxIndex (an extension over the shared
\* nibble 0)
HonestProofs ==
    { mpt_call(<<leaf_node(<<8, 0>> , r)>>, 0) : r \in Receipts }
    \cup { mpt_call(<<branch_node(0, leaf_node(<<1>>, r), 8, leaf_node(<<0>>, r)),
                      leaf_node(<<1>>, r)>>, 1) : r \in Receipts }
    \cup { mpt_call(<<extension_node(<<0>>, branch_node(1, leaf_node(<< >>, r), MaxIndex, leaf_node(<< >>, r))),
                      branch_node(1, leaf_node(<< >>, r), MaxIndex, leaf_node(<< >>, r)),
                      leaf_node(<< >>, r)>>, MaxIndex) : r \in Receipts }

InitMpt ==
    /\ pc = "proof"
    /\ call \in HonestProofs
    /\ prover = [tree |-> [nodes |-> << >>, num_leaves |-> 0, depth |-> 0], auth |-> NoAuth]
    /\ origin = NoOrigin
    /\ parsed = ParseNone
    /\ channel = NoChannel
    /\ air = NoAir
    /\ fri = NoFri
    /\ outcome = "none"
    /\ reason = ""
    /\ base = "none"
    /\ bound = NoBound

mpt_frame == <<prover, origin, parsed, channel, air, fri, reason, bound>>

rewrite_byte(b, v) == IF v = 0 THEN (b + 1) % 256 ELSE v

\* the caller hands over another receipts root
MptRewriteRoot(j, v) ==
    /\ pc = "proof" /\ ~call.rewritten
    /\ call.root[j] # rewrite_byte(call.root[j], v)
    /\ call' = [call EXCEPT !.root[j] = rewrite_byte(@, v), !.rewritten = TRUE]
    /\ UNCHANGED <<pc, outcome, base, mpt_frame>>

\* ... another byte in one node of the list
MptRewriteNode(n, j, v) ==
    /\ pc = "proof" /\ ~call.rewritten
    /\ n <= Len(call.proof_nodes) /\ j <= Len(call.proof_nodes[n])
    /\ call.proof_nodes[n][j] # rewrite_byte(call.proof_nodes[n][j], v)
    /\ call' = [call EXCEPT !.proof_nodes[n][j] = rewrite_byte(@, v), !.rewritten = TRUE]
    /\ UNCHANGED <<pc, outcome, base, mpt_frame>>

\* ... the key of another transaction index
MptRewriteKey(index) ==
    /\ pc = "proof" /\ ~call.rewritten
    /\ call.key # rlp_encode_tx_index(index)
    /\ call' = [call EXCEPT !.key = rlp_encode_tx_index(index), !.rewritten = TRUE]
    /\ UNCHANGED <<pc, outcome, base, mpt_frame>>

\* ... a list without its last node
MptDropNode ==
    /\ pc = "proof" /\ ~call.rewritten
    /\ call' = [call EXCEPT !.proof_nodes = SubArr(@, 0, Len(@) - 1), !.rewritten = TRUE]
    /\ UNCHANGED <<pc, outcome, base, mpt_frame>>

\* mpt::verify_mpt_proof(root, key, proof_nodes)
MptVerify ==
    /\ pc = "proof"
    /\ outcome' = verify_mpt_proof(call.root, call.key, call.proof_nodes)
    /\ pc' = "contract"
    /\ UNCHANGED <<call, base, mpt_frame>>

\* receipt_proof::verify_receipt_proof(&ReceiptProofData) on the same proof
ReceiptVerify ==
    /\ pc = "contract"
    /\ base' = verify_receipt_proof([receipts_root |-> call.root, receipt_key |-> call.key,
                                      receipt_proof_nodes |-> call.proof_nodes])
    /\ pc' = "prover"
    /\ UNCHANGED <<call, outcome, mpt_frame>>

NextMpt ==
    \/ \E j \in 1..HASH_LEN, v \in {0} \cup ByteRewrites : MptRewriteRoot(j, v)
    \/ \E n \in 1..3, j \in 1..32, v \in {0} \cup ByteRewrites : MptRewriteNode(n, j, v)
    \/ \E index \in 0..MaxIndex : MptRewriteKey(index)
    \/ MptDropNode
    \/ MptVerify
    \/ ReceiptVerify

SpecMpt == InitMpt /\ [][NextMpt]_vars

\* ------------------------------------------------------------------------
\* The field operations on their own: call holds two operand words, any
\* words and not only canonical ones; outcome is the contract's result on the
\* Fp of these limbs, base the prover's result on the words themselves.
\* ------------------------------------------------------------------------
FieldWords == {0, 1, 2, 4091, MODULUS - 1, MODULUS, MODULUS + 1, 2 * MODULUS, 40000, WORD_LIMIT - 1}

FieldOps == {"add", "sub", "neg", "mul", "pow", "inv", "div"}

InitField ==
    /\ pc = "operands"
    /\ call \in [a : FieldWords, b : FieldWords]
    /\ prover = [tree |-> [nodes |-> << >>, num_leaves |-> 0, depth |-> 0], auth |-> NoAuth]
    /\ origin = NoOrigin
    /\ parsed = ParseNone
    /\ channel = NoChannel
    /\ air = NoAir
    /\ fri = NoFri
    /\ outcome = "none"
    /\ reason = ""
    /\ base = "none"
    /\ bound = NoBound

\* one operation applied to the operands on both sides
FieldApply(op, fp, word) ==
    /\ pc = "operands"
    /\ pc' = op
    /\ outcome' = fp
    /\ base' = word
    /\ UNCHANGED <<call, mpt_frame>>

FieldAdd == FieldApply("add", Fp_add(as_limbs(call.a), as_limbs(call.b)), BN254Field_add(call.a, call.b))

FieldSub == FieldApply("sub", Fp_sub(as_limbs(call.a), as_limbs(call.b)), BN254Field_sub(call.a, call.b))

FieldNeg == FieldApply("neg", Fp_neg(as_limbs(call.a)), BN254Field_neg(call.a))

FieldMul == FieldApply("mul", Fp_mul(as_limbs(call.a), as_limbs(call.b)), BN254Field_mul(call.a, call.b))

FieldPow == FieldApply("pow", Fp_pow(as_limbs(call.a), call.b), BN254Field_pow(call.a, call.b))

FieldInv == FieldApply("inv", Fp_inv(as_limbs(call.a)), BN254Field_inv(call.a))

FieldDiv == FieldApply("div", Fp_div(as_limbs(call.a), as_limbs(call.b)), BN254Field_div(call.a, call.b))

NextField ==
    \/ FieldAdd
    \/ FieldSub
    \/ FieldNeg
    \/ FieldMul
    \/ FieldPow
    \/ FieldInv
    \/ FieldDiv

SpecField == InitField /\ [][NextField]_vars

\* ------------------------------------------------------------------------
\* The field laws: call holds three canonical words; each action evaluates the
\* two sides of one law, outcome with the contract's Fp on the Montgomery
\* forms of the words, base with the prover's BN254Field on the words.
\* ------------------------------------------------------------------------
CanonicalWords == {0, 1, 2, 5, 4091, 6144, MODULUS - 2, MODULUS - 1}

FieldLaws == {"negation", "inverse", "division", "commutativity", "associativity", "distributivity"}

InitLaws ==
    /\ pc = "operands"
    /\ call \in [a : CanonicalWords, b : CanonicalWords, c : CanonicalWords]
    /\ prover = [tree |-> [nodes |-> << >>, num_leaves |-> 0, depth |-> 0], auth |-> NoAuth]
    /\ origin = NoOrigin
    /\ parsed = ParseNone
    /\ channel = NoChannel
    /\ air = NoAir
    /\ fri = NoFri
    /\ outcome = "none"
    /\ reason = ""
    /\ base = "none"
    /\ bound = NoBound

\* the two sides of one law, on both implementations
LawApply(law, fp_lhs, fp_rhs, word_lhs, word_rhs) ==
    /\ pc = "operands"
    /\ pc' = law
    /\ outcome' = [lhs |-> fp_lhs, rhs |-> fp_rhs]
    /\ base' = [lhs |-> word_lhs, rhs |-> word_rhs]
    /\ UNCHANGED <<call, mpt_frame>>

\* a + (-a) and 0
LawNegation ==
    \E x \in {Fp_from_u256(call.a)} :
        LawApply("negation", Fp_add(x, Fp_neg(x)), Fp_ZERO,
                 BN254Field_add(call.a, BN254Field_neg(call.a)), 0)

\* a * inv(a) and 1
LawInverse ==
    \E x \in {Fp_from_u256(call.a)} :
        LawApply("inverse", Fp_mul(x, Fp_inv(x)), Fp_ONE,
                 BN254Field_mul(call.a, BN254Field_inv(call.a)), 1)

\* (a * b) / b and a
LawDivision ==
    \E x \in {Fp_from_u256(call.a)}, y \in {Fp_from_u256(call.b)} :
        LawApply("division", Fp_div(Fp_mul(x, y), y), x,
                 BN254Field_div(BN254Field_mul(call.a, call.b), call.b), call.a)

\* a * b and b * a
LawCommutativity ==
    \E x \in {Fp_from_u256(call.a)}, y \in {Fp_from_u256(call.b)} :
        LawApply("commutativity", Fp_mul(x, y), Fp_mul(y, x),
                 BN254Field_mul(call.a, call.b), BN254Field_mul(call.b, call.a))

\* (a * b) * c and a * (b * c)
LawAssociativity ==
    \E x \in {Fp_from_u256(call.a)}, y \in {Fp_from_u256(call.b)}, z \in {Fp_from_u256(call.c)} :
        LawApply("associativity", Fp_mul(Fp_mul(x, y), z), Fp_mul(x, Fp_mul(y, z)),
                 BN254Field_mul(BN254Field_mul(call.a, call.b), call.c),
                 BN254Field_mul(call.a, BN254Field_mul(call.b, call.c)))

\* a * (b + c) and a * b + a * c
LawDistributivity ==
    \E x \in {Fp_from_u256(call.a)}, y \in {Fp_from_u256(call.b)}, z \in {Fp_from_u256(call.c)} :
        LawApply("distributivity", Fp_mul(x, Fp_add(y, z)), Fp_add(Fp_mul(x, y), Fp_mul(x, z)),
                 BN254Field_mul(call.a, BN254Field_add(call.b, call.c)),
                 BN254Field_add(BN254Field_mul(call.a, call.b), BN254Field_mul(call.a, call.c)))

NextLaws ==
    \/ LawNegation
    \/ LawInverse
    \/ LawDivision
    \/ LawCommutativity
    \/ LawAssociativity
    \/ LawDistributivity

SpecLaws == InitLaws /\ [][NextLaws]_vars

\* ------------------------------------------------------------------------
\* FFT and IFFT on their own: call holds a vector of field elements of length
\* 2^log_size, outcome the vector after the first transform and base the vector
\* after the second.
\* ------------------------------------------------------------------------
MaxFftLog == 3

FftCoefficients == {0, 1, 31, MODULUS - 1}

\* the vectors i -> c0 + c1 * i + c2 * i^3 (the tests use i * 31 + 5)
FftVectors ==
    { Vec([i \in 1..Pow2(k) |-> (c[1] + c[2] * (i - 1) + c[3] * (i - 1) * (i - 1) * (i - 1)) % MODULUS]) :
          k \in 0..MaxFftLog, c \in FftCoefficients \X FftCoefficients \X FftCoefficients }

InitFft ==
    /\ pc = "vector"
    /\ \E v \in FftVectors : call = [v |-> v, log_size |-> log2(Len(v))]
    /\ prover = [tree |-> [nodes |-> << >>, num_leaves |-> 0, depth |-> 0], auth |-> NoAuth]
    /\ origin = NoOrigin
    /\ parsed = ParseNone
    /\ channel = NoChannel
    /\ air = NoAir
    /\ fri = NoFri
    /\ outcome = "none"
    /\ reason = ""
    /\ base = "none"
    /\ bound = NoBound

\* fft(&mut data, log_size)
FftForward ==
    /\ pc = "vector"
    /\ outcome' = fft(call.v, call.log_size)
    /\ pc' = "fft"
    /\ UNCHANGED <<call, base, mpt_frame>>

\* ifft(&mut data, log_size) on the transformed data
FftThenIfft ==
    /\ pc = "fft"
    /\ base' = ifft(outcome, call.log_size)
    /\ pc' = "fft_ifft"
    /\ UNCHANGED <<call, outcome, mpt_frame>>

\* ifft(&mut data, log_size)
FftInverse ==
    /\ pc = "vector"
    /\ outcome' = ifft(call.v, call.log_size)
    /\ pc' = "ifft"
    /\ UNCHANGED <<call, base, mpt_frame>>

\* fft(&mut data, log_size) on the inverse-transformed data
IfftThenFft ==
    /\ pc = "ifft"
    /\ base' = fft(outcome, call.log_size)
    /\ pc' = "ifft_fft"
    /\ UNCHANGED <<call, outcome, mpt_frame>>

NextFft ==
    \/ FftForward
    \/ FftThenIfft
    \/ FftInverse
    \/ IfftThenFft

SpecFft == InitFft /\ [][NextFft]_vars

\* ------------------------------------------------------------------------
\* The Sharpe trace and its AIR on their own: origin holds the returns and the
\* claimed value, prover the SharpeTrace and its public inputs, air the
\* constraint values on the rows of the trace.
\* ------------------------------------------------------------------------
MaxTrades == 4

ReturnValues == {-1, 0, 1, 4}

DatasetCommitments == {0, 7}

\* returns vectors of 2..MaxTrades trades
ReturnVectors ==
    UNION { [1..n -> ReturnValues] : n \in 2..MaxTrades }

\* row i (0-based) of the trace: [return, return_sq, cum_ret, cum_sq, trade_count,
\* dataset_commitment]
trace_row(trace, i) == Vec([j \in 1..6 |-> At(trace.cols[j], i)])

\* the integer sum of the returns (squares = FALSE) or of their squares, over
\* s = [acc, i]
RECURSIVE prefix_int(_, _, _)
prefix_int(s, trades, squares) ==
    IF s.i > Len(trades) THEN s.acc
    ELSE prefix_int([acc |-> s.acc + (IF squares THEN trades[s.i] * trades[s.i]
                                      ELSE trades[s.i]),
                     i |-> s.i + 1], trades, squares)

\* floor((sum r)^2 * SCALE / (n * sum(r^2) - (sum r)^2)) for n, sum r and
\* sum(r^2) given as integers, 0 when the denominator is 0
floor_sharpe_sq_scaled(n, total, total_sq) ==
    IF n * total_sq - total * total = 0 THEN 0
    ELSE (total * total * SHARPE_SCALE) \div (n * total_sq - total * total)

\* claimed values a caller passes to public_inputs for a trace
ClaimedValues(trades, trace) ==
    LET total == prefix_int([acc |-> 0, i |-> 1], trades, FALSE)
        total_sq == prefix_int([acc |-> 0, i |-> 1], trades, TRUE)
        exact == compute_sharpe_sq_scaled(trace)
    IN  { exact, add(exact, 1),
          floor_sharpe_sq_scaled(Len(trades), total, total_sq) % MODULUS }

InitTrace ==
    /\ pc = "returns"
    /\ \E trades \in ReturnVectors : origin = [NoOrigin EXCEPT !.trades = Vec(trades)]
    /\ call = NoCall
    /\ prover = NoProver
    /\ parsed = ParseNone
    /\ channel = NoChannel
    /\ air = [tc |-> << >>, bc |-> << >>]
    /\ fri = NoFri
    /\ outcome = "none"
    /\ reason = ""
    /\ base = "none"
    /\ bound = NoBound

trace_frame == <<call, parsed, channel, fri, outcome, reason, base, bound>>

\* SharpeTrace::generate(trades, dataset_commitment), None giving 0
TraceGenerate ==
    /\ pc = "returns"
    /\ generate_asserts(origin.trades)
    /\ \E dataset_commitment \in DatasetCommitments :
          prover' = [prover EXCEPT !.trace =
                        SharpeTrace_generate(origin.trades, dataset_commitment)]
    /\ pc' = "trace"
    /\ UNCHANGED <<origin, air, trace_frame>>

\* SharpeTrace::public_inputs(claimed_sharpe_sq_scaled)
TracePublicInputs ==
    /\ pc = "trace"
    /\ \E claimed_sharpe_sq_scaled \in ClaimedValues(origin.trades, prover.trace) :
          /\ origin' = [origin EXCEPT !.claimed = claimed_sharpe_sq_scaled,
                                      !.exact = claimed_sharpe_sq_scaled =
                                                    compute_sharpe_sq_scaled(prover.trace)]
          /\ prover' = [prover EXCEPT !.public_inputs =
                            SharpeTrace_public_inputs(prover.trace, claimed_sharpe_sq_scaled)]
    /\ pc' = "claimed"
    /\ UNCHANGED <<air, trace_frame>>

\* evaluate_transition on every pair of consecutive rows; the boundary
\* numerators at row 0 and at row N - 1 (evaluate_boundary_quotients at a
\* point whose denominator z - g^0, respectively z - g^(N-1), is 1)
AirEvaluate ==
    /\ pc = "claimed"
    /\ LET trace == prover.trace
           first == evaluate_boundary_quotients(trace_row(trace, 0), 2, 1, 0,
                                                prover.public_inputs)
           last == evaluate_boundary_quotients(trace_row(trace, trace.len - 1), 1, 2, 0,
                                               prover.public_inputs)
       IN  air' = [tc |-> Vec([i \in 1..(trace.len - 1) |->
                            evaluate_transition(trace_row(trace, i - 1), trace_row(trace, i))]),
                   bc |-> <<first[1], first[2], last[3], last[4]>>]
    /\ pc' = "evaluated"
    /\ UNCHANGED <<origin, prover, trace_frame>>

NextTrace ==
    \/ TraceGenerate
    \/ TracePublicInputs
    \/ AirEvaluate

SpecTrace == InitTrace /\ [][NextTrace]_vars

\* ------------------------------------------------------------------------
\* The composition formula on its own: call holds a current row, a next row,
\* an evaluation point, the public inputs and nine alphas; air collects the
\* value of the verifier's recomposition, of the prover's scalar composition
\* and of the prover's LDE composer at that point.
\* ------------------------------------------------------------------------
MaxComposeLog == 2

\* rows [return, return_sq, cum_ret, cum_sq, trade_count, dataset_commitment]
ComposeRows == { <<1, 1, 1, 1, 2, 7>>, <<2, 4, 3, 5, 2, 7>>, <<2, 4, 3, 5, 2, 9>>, <<0, 0, 0, 0, 0, 0>> }

ComposePoints(log_trace_len) ==
    {1, 3, 5} \cup {pow(domain_generator(log_trace_len), Pow2(log_trace_len) - 1)}

\* the fifth alpha alone, all nine equal, nine different ones
ComposeAlphas == { <<0, 0, 0, 0, 1, 0, 0, 0, 0>>, <<1, 1, 1, 1, 1, 1, 1, 1, 1>>, <<2, 3, 5, 7, 11, 13, 17, 19, 23>> }

ComposePublicInputs == { <<2, 3, 3977, 7>> }

InitCompose ==
    /\ pc = "inputs"
    /\ \E log_trace_len \in 1..MaxComposeLog :
           call \in [current : ComposeRows, next : ComposeRows, x : ComposePoints(log_trace_len),
                     log_trace_len : {log_trace_len}, public_inputs : ComposePublicInputs,
                     alphas : ComposeAlphas]
    /\ prover = [tree |-> [nodes |-> << >>, num_leaves |-> 0, depth |-> 0], auth |-> NoAuth]
    /\ origin = NoOrigin
    /\ parsed = ParseNone
    /\ channel = NoChannel
    /\ air = [tc |-> << >>, verifier |-> "none", at_z |-> "none", on_lde |-> "none"]
    /\ fri = NoFri
    /\ outcome = "none"
    /\ reason = ""
    /\ base = "none"
    /\ bound = NoBound

compose_frame == <<call, prover, origin, parsed, channel, fri, outcome, reason, base, bound>>

\* the LDE columns and the LDE domain of the composer's arguments in which
\* position 0 is the point x with the current row and position
\* 0 + blowup holds the next row
lde_columns(current, next, lde_size) ==
    Vec([j \in 1..6 |-> Vec([i \in 1..lde_size |->
            IF i = 1 THEN current[j] ELSE IF i = 1 + BLOWUP_FACTOR THEN next[j] ELSE 0])])

lde_points(x, log_lde_size) == SetAt(get_domain(log_lde_size), 0, x)

\* sharpe_air::evaluate_transition_ood and Steps 3 to 5 of the verifier
ComposeVerifier ==
    /\ pc = "inputs"
    /\ air' = [air EXCEPT
                  !.tc = evaluate_transition_ood(call.current, call.next),
                  !.verifier = verifier_composition_at_z(call.current, call.next, call.x,
                                   call.log_trace_len, call.public_inputs, call.alphas)]
    /\ pc' = "verifier"
    /\ UNCHANGED compose_frame

\* compute_sharpe_composition_at_z
ComposeAtZ ==
    /\ pc = "verifier"
    /\ air' = [air EXCEPT
                  !.at_z = compute_sharpe_composition_at_z(call.current, call.next, call.x,
                               domain_generator(call.log_trace_len), Pow2(call.log_trace_len),
                               call.public_inputs, call.alphas)]
    /\ pc' = "at_z"
    /\ UNCHANGED compose_frame

\* evaluate_sharpe_composition_on_lde, read at position 0
ComposeOnLde ==
    /\ pc = "at_z"
    /\ \E lde_size \in {Pow2(call.log_trace_len) * BLOWUP_FACTOR} :
           air' = [air EXCEPT
                     !.on_lde = At(evaluate_sharpe_composition_on_lde(
                                       lde_columns(call.current, call.next, lde_size),
                                       lde_points(call.x, call.log_trace_len + BLOWUP_LOG),
                                       domain_generator(call.log_trace_len),
                                       Pow2(call.log_trace_len),
                                       call.public_inputs, call.alphas), 0)]
    /\ pc' = "on_lde"
    /\ UNCHANGED compose_frame

NextCompose ==
    \/ ComposeVerifier
    \/ ComposeAtZ
    \/ ComposeOnLde

SpecCompose == InitCompose /\ [][NextCompose]_vars

\* ------------------------------------------------------------------------
\* Properties
\* ------------------------------------------------------------------------
\* a call log without the values its draws returned
Calls(log) == Vec([i \in 1..Len(log) |-> IF log[i][1] = "draw" THEN <<"draw">> ELSE log[i]])

\* a verification of prove_sharpe's arrays as emitted has returned
HonestDone == pc = "done" /\ origin.rewrite.kind = "none"

RECURSIVE SumInt(_)
SumInt(seq) == IF seq = << >> THEN 0 ELSE Head(seq) + SumInt(Tail(seq))

\* n * sum(r^2) - (sum r)^2 over the integers
Variance(trades) ==
    LET sq == [i \in 1..Len(trades) |-> trades[i] * trades[i]]
    IN  Len(trades) * SumInt(sq) - SumInt(trades) * SumInt(trades)

C2_TamperedClaimRejected ==
    (/\ pc = "done" /\ base = "true"
     /\ origin.rewrite.kind = "replace" /\ origin.rewrite.name = "public_inputs"
     /\ origin.rewrite.pos = 2)
        => (outcome = "false" /\ reason = "AIRFailure")

\* the composition value at z as section 3 of the specification defines it,
\* from the submitted words: TC_0..TC_4 over the zerofier, BQ_0..BQ_3, with z
\* the first draw after commit(trace root) and alpha_j the nine draws after it.
\* TC_4 = t'.commitment - t.commitment; placeholder puts 0 for it, the value
\* evaluate_transition gives it.
Recomposed(placeholder) ==
    LET pis == map_from_u256(SubArr(call.public_inputs, 0, 4))
        state == PoseidonHasher_hash_two(seed_fold(pis, 4), from_u256(At(call.commitments, 0)))
        z == PoseidonHasher_hash_two(state, 0)
        alpha(j) == PoseidonHasher_hash_two(state, 1 + j)
        t(i) == from_u256(At(call.ood_values, i))
        n == Pow2(as_limb(At(call.query_metadata, 2)))
        g_last == pow(domain_generator(as_limb(At(call.query_metadata, 2))), n - 1)
        z_t == div(sub(pow(z, n), 1), sub(z, g_last))
        tc == <<sub(t(8), add(t(2), t(6))), sub(t(1), mul(t(0), t(0))),
                sub(t(9), add(t(3), t(7))), sub(t(10), t(4)), IF placeholder THEN 0 ELSE sub(t(11), t(5))>>
        bq == <<div(sub(t(2), t(0)), sub(z, 1)), div(sub(t(3), t(1)), sub(z, 1)),
                div(sub(t(2), pis[2]), sub(z, g_last)),
                div(sub(mul(mul(t(2), t(2)), from_u256(SHARPE_SCALE)),
                        mul(pis[3], sub(mul(pis[1], t(3)), mul(t(2), t(2))))),
                    sub(z, g_last))>>
    IN  add(field_sum(Vec([j \in 1..5 |-> mul(alpha(j - 1), div(tc[j], z_t))]), 5),
            field_sum(Vec([j \in 1..4 |-> mul(alpha(4 + j), bq[j])]), 4))

\* z and the alphas are the ten draws that follow commit(trace root)
ChallengeOrder ==
    /\ Len(channel.log) >= 12
    /\ channel.log[2] = <<"commit", from_u256(At(call.commitments, 0))>>
    /\ channel.log[3] = <<"draw", air.z>>
    /\ \A j \in 1..9 : channel.log[3 + j] = <<"draw", air.alphas[j]>>

\* C3: verify_sharpe_stark returns true only if the value recomposed by the
\* verifier, sum over j<5 of alpha_j * (TC_j / Z_T(z)) plus sum over j<4 of
\* alpha_(5+j) * BQ_j, equals ood_values[12], where z is the first draw after
\* committing the trace root and alpha_0..alpha_8 are the next nine draws.
C3_Recomposition ==
    (pc = "done" /\ outcome = "true")
        => (ChallengeOrder /\ Recomposed(FALSE) = from_u256(At(call.ood_values, 12)))

\* the same with TC_4 = 0, the value evaluate_transition gives it
C3_RecompositionPlaceholder ==
    (pc = "done" /\ outcome = "true")
        => (ChallengeOrder
            /\ Recomposed(TRUE) = from_u256(At(call.ood_values, 12)))


\* verify_fri has returned
FriReturned == pc = "done" /\ fri.count > 0

\* sum of coeffs[i] * x^i
PolyValue(coeffs, x) ==
    field_sum(Vec([i \in 1..Len(coeffs) |-> mul(coeffs[i], pow(x, i - 1))]), Len(coeffs))

\* the checks of one (query, layer) pair, read off the parsed proof
LayerCheck(q, l) ==
    LET num_layers == fri.params.num_layers
        log_domain == fri.params.log_domain_size - l
        idx == At(parsed.query_indices, q) % Pow2(log_domain)
        at == q * num_layers * 2 + 2 * l
        fx == At(parsed.query_values, at)
        f_neg_x == At(parsed.query_values, at + 1)
        cursor == q * path_elements(fri.params.log_domain_size, num_layers)
                    + path_elements(fri.params.log_domain_size, l)
        path == SubArr(parsed.query_paths, cursor, cursor + log_domain)
        x == evaluate_at(domain_generator(log_domain), idx)
        folded == fri_fold(fx, f_neg_x, At(fri.alphas, l), x)
    IN  /\ MerkleVerifier_verify(At(parsed.fri_layer_commitments, l), fx, path,
                                 index_bits(idx, log_domain))
        /\ IF l < num_layers - 1
           THEN folded = At(parsed.query_values, at + 2)
           ELSE folded = PolyValue(parsed.fri_final_poly,
                             evaluate_at(domain_generator(log_domain - 1),
                                         idx % Pow2(log_domain - 1)))

FriChecks ==
    /\ \A q \in 0..(fri.params.num_queries - 1) :
          At(fri.derived_indices, q) = At(parsed.query_indices, q)
    /\ \A q \in 0..(fri.params.num_queries - 1), l \in 0..(fri.params.num_layers - 1) :
          LayerCheck(q, l)

\* C4: verify_fri returns true if and only if every check passes: the supplied
\* query indices equal, position by position, the indices re-derived from the
\* transcript; for every query and every layer the Merkle path of f(x) verifies
\* against that layer's root using the bits of the current index, the fold of
\* (f(x), f(-x), alpha_l, x) equals the next layer's f(x) for interior layers,
\* and for the last layer the final polynomial at the reduced index's point.
C4_FriVerdict == FriReturned => (outcome = "true" <=> FriChecks)

\* two queries over two layers, accepted
C4_Witness ==
    /\ FriReturned
    /\ fri.params.num_queries = 2 /\ fri.params.num_layers = 2
    /\ outcome = "true" /\ FriChecks

\* rejected by verify_fri: some check fails
C4_WitnessRejected ==
    /\ FriReturned
    /\ outcome = "false" /\ ~FriChecks

\* the calls of an honest run, in order, without the values drawn
Repeat(n, e) == Vec([i \in 1..n |-> e])

Commits(vals) == Vec([i \in 1..Len(vals) |-> <<"commit", vals[i]>>])

RECURSIVE LayerCalls(_)
LayerCalls(roots) ==
    IF roots = << >> THEN << >>
    ELSE << <<"commit", Head(roots)>>, <<"draw">> >> \o LayerCalls(Tail(roots))

ExpectedCalls ==
    LET c == [name \in ArrayNames |-> map_from_u256(GetArr(call, name))]
    IN  << <<"new", keccak_hash_two(keccak_hash_two(keccak_hash_two(
                        c["public_inputs"][1], c["public_inputs"][2]),
                        c["public_inputs"][3]), c["public_inputs"][4])>>,
           <<"commit", c["commitments"][1]>> >>
        \o Repeat(10, <<"draw">>)
        \o << <<"commit", c["commitments"][2]>> >>
        \o LayerCalls(SubArr(c["commitments"], 2, Len(c["commitments"])))
        \o Commits(c["fri_final_poly"])

\* C5: for an honestly generated Sharpe proof the verifier executes exactly the
\* same ordered sequence of transcript operations as the prover: new(seed =
\* left-fold of H over the 4 public inputs), commit(trace root), draw z, nine
\* draws of alpha, commit(composition root), per FRI layer commit(layer root)
\* and one draw, one commit per final-polynomial coefficient, then the
\* query-index draws; hence every challenge the verifier derives (z, the nine
\* alphas, every FRI alpha, every query index) equals the one the prover used.
C5_SameTranscript ==
    HonestDone =>
        LET n == Len(ExpectedCalls)
            draws == Len(channel.log) - n
        IN  /\ channel.log = prover.channel.log
            /\ draws >= prover.num_queries
            /\ Calls(channel.log) = ExpectedCalls \o Repeat(draws, <<"draw">>)
            /\ air.z = prover.z
            /\ air.alphas = prover.alphas
            /\ fri.alphas = prover.fri_commitment.alphas
            /\ SubArr(fri.derived_indices, 0, fri.params.num_queries) = prover.query_indices

\* a run with two FRI layers and two queries
C5_Witness ==
    /\ HonestDone /\ outcome = "true"
    /\ Len(prover.fri_commitment.alphas) = 2
    /\ prover.num_queries = 2
    /\ Len(channel.log) = Len(ExpectedCalls) + 2
    /\ channel.log = prover.channel.log

\* the number of draw entries after the last new/commit entry of a call log
DrawsSinceCommit(log) ==
    Len(log) - (CHOOSE i \in 1..Len(log) :
                   /\ log[i][1] # "draw"
                   /\ \A j \in (i + 1)..Len(log) : log[j][1] = "draw")

C6_Counter == channel.counter = DrawsSinceCommit(channel.log)

\* a step that changes the channel is one commit(x) or one draw_felt()
C6_Step ==
    channel' # channel =>
        LET e == channel'.log[Len(channel'.log)]
        IN  /\ channel'.log = Append(channel.log, e)
            /\ \/ /\ e[1] = "commit"
                  /\ channel'.state = PoseidonHasher_hash_two(channel.state, e[2])
                  /\ channel'.counter = 0
               \/ /\ e[1] = "draw"
                  /\ e[2] = PoseidonHasher_hash_two(channel.state, channel.counter)
                  /\ channel'.counter = channel.counter + 1
                  /\ channel'.state = channel.state

C7_Determinism ==
    (pc = "channel" /\ Calls(channel.log) = Calls(prover.channel.log))
        => channel.log = prover.channel.log

C7_Witness ==
    /\ pc = "channel"
    /\ Len(channel.log) >= 4
    /\ \E i, j \in 1..Len(channel.log) :
          /\ i < j /\ channel.log[i][1] = "draw" /\ channel.log[j][1] = "draw"
          /\ \E k \in (i + 1)..(j - 1) : channel.log[k][1] = "commit"
    /\ channel.log = prover.channel.log

\* draw_queries_into and draw_queries have returned
QueriesReturned == pc = "channel" /\ fri.count > 0

Distinct(seq) == \A i, j \in 1..Len(seq) : i # j => seq[i] # seq[j]

Below(seq, n) == \A i \in 1..Len(seq) : 0 <= seq[i] /\ seq[i] < n

\* what the calls yielded: output[..written], and the prover's Vec
C8_Yield(k_into) ==
    LET domain_size == Pow2(fri.params.log_domain_size)
        yielded == SubArr(fri.derived_indices, 0, fri.written)
    IN  /\ fri.written = k_into
        /\ Distinct(yielded) /\ Below(yielded, domain_size)
        /\ Len(prover.query_indices) = prover.num_queries
        /\ Distinct(prover.query_indices) /\ Below(prover.query_indices, domain_size)

ParserBounds ==
    /\ Len(call.query_metadata) >= 3
    /\ LET num_queries == as_limb(At(call.query_metadata, 0))
           num_fri_layers == as_limb(At(call.query_metadata, 1))
           log_trace_len == as_limb(At(call.query_metadata, 2))
       IN  /\ log_trace_len <= MAX_LOG_TRACE_LEN
           /\ 1 <= num_fri_layers /\ num_fri_layers <= log_trace_len + 2
           /\ 1 <= num_queries /\ num_queries <= MAX_QUERIES
           /\ Len(call.ood_values) = OOD_LEN
           /\ Len(call.query_values) = num_queries * num_fri_layers * 2
           /\ Len(call.query_paths) =
                  num_queries * path_elements(log_trace_len + 2, num_fri_layers)

\* C9: the Sharpe proof parser yields a structured proof only if log_trace_len
\* is at most its maximum, 1 <= num_fri_layers <= log_trace_len + 2,
\* 1 <= num_queries <= 64, ood_values has length exactly 13, query_values
\* exactly num_queries * num_fri_layers * 2 and query_paths exactly
\* num_queries * sum over l < num_fri_layers of (log_trace_len + 2 - l); any
\* input violating one of these makes the verifier return false (MalformedProof).
C9_ParserBounds ==
    /\ (pc \in {"drawing", "done"} /\ parsed.tag = "Some") => ParserBounds
    /\ (pc = "done" /\ ~ParserBounds) => (outcome = "false" /\ reason = "MalformedProof")

\* every index the masked draws can give has been written, and more are asked for
QueryLoopExhausted ==
    /\ pc = "drawing"
    /\ fri.written = Pow2(fri.params.log_domain_size)
    /\ fri.written < fri.count

\* C10: for every content of the seven input arrays verify_sharpe_stark's only
\* outcome is true or false: never a panic (an index past the proof arrays or
\* past alphas[32], layer_generators[32], derived_indices[64], indices_buf[32],
\* a failed domain_generator assertion) and never an abort, so no call is left
\* in a loop that cannot end.
C10_TrueOrFalseOnly ==
    /\ outcome \in {"none", "true", "false"}
    /\ ~QueryLoopExhausted

\* H(c, c) applied k times, starting from v
RECURSIVE ConstantRoot(_, _)
ConstantRoot(v, k) ==
    IF k = 0 THEN v
    ELSE LET c == ConstantRoot(v, k - 1) IN keccak_hash_two(c, c)

\* fold(hashes): the keccak chain over the reduced hashes, from the left
RECURSIVE FoldHashes(_)
FoldHashes(hashes) ==
    IF Len(hashes) = 1 THEN from_u256(hashes[1])
    ELSE keccak_hash_two(FoldHashes(SubSeq(hashes, 1, Len(hashes) - 1)),
                         from_u256(hashes[Len(hashes)]))

\* verify_sharpe_with_commitment has returned
BoundReturned == pc = "bound" /\ bound.stage = "returned"

\* public_inputs[3] is the constant-column root of fold(receipt_hashes) at
\* depth log_trace_len
RootMatches ==
    /\ Len(bound.receipt_hashes) > 0
    /\ Len(call.public_inputs) >= 4 /\ Len(call.query_metadata) >= 3
    /\ from_u256(At(call.public_inputs, 3)) =
           ConstantRoot(FoldHashes(bound.receipt_hashes),
                        At(call.query_metadata, 2) % LIMB_LIMIT)

\* C11: commit-bound verify returns true only if the plain STARK verification
\* of the same seven arrays accepts and public_inputs[3] (as a field element)
\* equals the constant-column Merkle root computed from fold(receipt_hashes)
\* at depth log_trace_len; when the plain verification accepts and the root
\* differs, it returns false (CommitmentMismatch).
C11_BoundVerdict ==
    BoundReturned =>
        /\ bound.result = "true" => (base = "true" /\ RootMatches)
        /\ (base = "true" /\ ~RootMatches) => bound.result = "false"

\* an accepted commit-bound call, and a rejected one whose arrays pass the
\* plain verification
C11_Witness ==
    /\ BoundReturned /\ bound.result = "true"
    /\ bound.receipt_hashes = <<7, 9>>

C11_WitnessMismatch ==
    /\ BoundReturned /\ bound.result = "false" /\ base = "true"
    /\ bound.stage = "returned" /\ outcome = "true"

\* C12: whenever commit-bound verify accepts, the commitment column (col5) of
\* the trace underlying the proof is constant and equal to the data commitment
\* folded from the supplied receipt hashes.
C12_ColumnBound ==
    (BoundReturned /\ bound.result = "true") =>
        \A i \in 1..prover.trace.len :
            prover.trace.cols[6][i] = FoldHashes(bound.receipt_hashes)

\* the binary digits of i, least significant first
BitsOf(i, depth) == [k \in 1..depth |-> (i \div (2 ^ (k - 1))) % 2 = 1]

\* C13: for every power-of-two leaf array and every leaf index i,
\* verify(root, leaf[i], auth_path(i).siblings, auth_path(i).bits) returns
\* true; both lists have length log2(n), and the direction bits are the binary
\* digits of i, least significant first: the bits the FRI verifier recomputes
\* from the query index.
C13_AuthPathVerifies ==
    /\ pc \in {"path", "verified"} =>
          /\ Len(prover.auth.path) = prover.tree.depth
          /\ Pow2(prover.tree.depth) = Len(call.leaves)
          /\ prover.auth.indices = BitsOf(call.leaf_index, prover.tree.depth)
          /\ prover.auth.indices = index_bits(call.leaf_index, prover.tree.depth)
    /\ pc = "verified" => outcome = "true"

C13_Witness ==
    /\ pc = "verified" /\ outcome = "true"
    /\ Len(call.leaves) = 8 /\ call.leaf_index = 5
    /\ prover.auth.indices = <<TRUE, FALSE, TRUE>>

\* C14: for every field value v and every k >= 0, the constant-column root
\* computed by the verifier (compute_constant_merkle_root(v, k)) equals the
\* root of the prover's Merkle tree built over 2^k leaves that all equal v,
\* the value the prover places in public_inputs[3].
C14_ConstantRootAgrees ==
    pc = "predicted" => base = MerkleTree_root(prover.tree)

\* the same collapse written with the hash the tree is built with
RECURSIVE TreeHashRoot(_, _)
TreeHashRoot(v, k) ==
    IF k = 0 THEN v
    ELSE LET c == TreeHashRoot(v, k - 1) IN PoseidonHasher_hash_two(c, c)

C14_CollapseWithTreeHash ==
    pc = "predicted" =>
        MerkleTree_root(prover.tree) = TreeHashRoot(call.leaves[1], prover.tree.depth)

\* C15: for a returns vector whose variance denominator
\* n * sum(r^2) - (sum r)^2 is zero the prover refuses to generate a proof: it
\* fails before any value is committed to the transcript and emits no proof
\* object.
C15_DegenerateRefused ==
    (Len(origin.trades) >= 2 /\ Variance(origin.trades) = 0) =>
        /\ prover.channel = NoChannel
        /\ call = NoCall

\* sum r, sum(r^2) and n of the returns, reduced into the field
FieldTotal(trades, squares) == prefix_int([acc |-> 0, i |-> 1], trades, squares) % MODULUS

\* the claimed value satisfies BC3 for the returns' totals:
\* (sum r)^2 * S = s * (n * sum(r^2) - (sum r)^2) in the field
ClaimSatisfiesBC3 ==
    LET total == FieldTotal(origin.trades, FALSE)
        total_sq == FieldTotal(origin.trades, TRUE)
        n == Len(origin.trades) % MODULUS
    IN  (((total * total) % MODULUS) * SHARPE_SCALE) % MODULUS =
            (origin.claimed * ((n * total_sq - total * total) % MODULUS)) % MODULUS

\* C16: for every trace produced by generate from at least 2 returns, with
\* public inputs [n, sum r, s, root] where s satisfies BC3, each of the five
\* transition constraints evaluates to zero on every pair of consecutive rows
\* (i, i+1), 0 <= i <= N-2, padding rows included; BC0 and BC1 are zero at row
\* 0, and BC2 and BC3 are zero at row N-1.
C16_ConstraintsVanish ==
    pc = "evaluated" =>
        /\ Len(air.tc) = prover.trace.len - 1
        /\ \A i \in 1..Len(air.tc) : air.tc[i] = <<0, 0, 0, 0, 0>>
        /\ \A i \in 1..(prover.trace.len - 1) :
               sub(prover.trace.cols[6][i + 1], prover.trace.cols[6][i]) = 0
        /\ air.bc[1] = 0 /\ air.bc[2] = 0 /\ air.bc[3] = 0
        /\ ClaimSatisfiesBC3 => air.bc[4] = 0
        /\ prover.public_inputs[1] = Len(origin.trades) % MODULUS
        /\ prover.public_inputs[2] = FieldTotal(origin.trades, FALSE)
        /\ prover.public_inputs[3] = origin.claimed

\* a three-trade trace padded to four rows, with a claimed value satisfying BC3
C16_Witness ==
    /\ pc = "evaluated" /\ ClaimSatisfiesBC3
    /\ origin.trades = <<1, 4, -1>> /\ prover.trace.len = 4
    /\ air.bc = <<0, 0, 0, 0>>

FloorSharpe(trades) ==
    LET sq == [i \in 1..Len(trades) |-> trades[i] * trades[i]]
    IN  ((SumInt(trades) * SumInt(trades) * SHARPE_SCALE) \div Variance(trades)) % MODULUS

\* C18: for every returns vector r_1..r_n with n >= 2 and non-zero variance,
\* boundary constraint BC3 ((sum r)^2 * S - s * (n * sum(r^2) - (sum r)^2) = 0,
\* S = 10000) holds if and only if the claimed value s equals
\* floor((sum r)^2 * S / (n * sum(r^2) - (sum r)^2)).
C18_SharpeIdentity ==
    (pc = "evaluated" /\ Variance(origin.trades) # 0) =>
        (air.bc[4] = 0 <=> origin.claimed = FloorSharpe(origin.trades))

\* the reference a node keeps to the child on the way of the key: the slot of
\* the next key nibble in a branch, the second item of an extension
ChildRef(node, key_nibbles, key_offset) ==
    LET r == rlp_decode_list(node)
    IN  IF Len(r.items) = 17 THEN At(r.items, At(key_nibbles, key_offset)) ELSE r.items[2]

\* a node is the one expected: it hashes to the reference (the root for the
\* first node, the parent's child reference for the others), or it is the
\* node the parent embeds
NodeExpected(node, ref) ==
    IF Len(ref) = HASH_LEN THEN mpt_keccak256(node) = ref ELSE node = ref

\* the value at the end of a valid Patricia path: the walk of the source with
\* every node held to the reference expected for it; s = [i, key_offset, ref]
RECURSIVE PatriciaPath(_, _, _)
PatriciaPath(s, key_nibbles, nodes) ==
    IF s.i >= Len(nodes) THEN None
    ELSE IF ~NodeExpected(At(nodes, s.i), s.ref) THEN None
    ELSE LET node == At(nodes, s.i)
             t == mpt_step([i |-> s.i, key_offset |-> s.key_offset,
                            expected_hash |-> mpt_keccak256(node)], key_nibbles, node)
         IN  IF "returned" \in DOMAIN t THEN t.returned
             ELSE PatriciaPath([i |-> t.i, key_offset |-> t.key_offset,
                                ref |-> ChildRef(node, key_nibbles, s.key_offset)],
                               key_nibbles, nodes)

ValidPath(root, key, nodes) ==
    PatriciaPath([i |-> 0, key_offset |-> 0, ref |-> root], bytes_to_nibbles(key), nodes)

\* C19: the MPT walker returns Some(leaf_bytes) if and only if the ordered
\* node list forms a valid Patricia path from the given root to a leaf whose
\* key nibbles spell out the key; in particular it returns None whenever any
\* node of the list, the first included, does not hash to the value expected
\* for it (the root for the first node, the parent's child reference for the
\* others).  Stated of the contract's walker and of the prover's.
C19_WalkerIffValidPath ==
    /\ pc \in {"contract", "prover"} =>
           outcome = ValidPath(call.root, call.key, call.proof_nodes)
    /\ pc = "prover" => base = ValidPath(call.root, call.key, call.proof_nodes)

\* the honest paths are walked to their receipt
C19_HonestWalk ==
    (pc = "prover" /\ ~call.rewritten) =>
        /\ outcome.tag = "Some" /\ outcome.value \in Receipts
        /\ base = outcome
        /\ ValidPath(call.root, call.key, call.proof_nodes) = outcome

\* the two walkers agree
C19_WalkersAgree == pc = "prover" => base = outcome

\* a value of the representation: two limbs, a word
IsFp(x) == x \in Seq(0..(LIMB_BASE - 1)) /\ Len(x) = 2

IsWord(x) == x \in 0..(WORD_LIMIT - 1)

\* the largest sum mac forms fits the double limb it is computed in
MacFits == (LIMB_BASE - 1) + (LIMB_BASE - 1) * (LIMB_BASE - 1) + (LIMB_BASE - 1) < LIMB_BASE * LIMB_BASE

\* C20: field operations cannot fail: inv(0) returns 0, div(a, 0) returns 0
\* for every a, and add, sub, neg, mul, pow, inv and div return a value
\* without panicking for all operands (canonical or not), in the contract's
\* Fp and in the prover's BN254Field.
C20_FieldTotal ==
    /\ pc \in FieldOps => IsFp(outcome) /\ IsWord(base) /\ MacFits
    /\ (pc = "inv" /\ call.a = 0) => outcome = Fp_ZERO /\ base = 0
    /\ (pc = "div" /\ call.b = 0) => outcome = Fp_ZERO /\ base = 0

\* the largest word divided by zero
C20_Witness ==
    /\ pc = "div" /\ call.a = WORD_LIMIT - 1 /\ call.b = 0
    /\ outcome = Fp_ZERO /\ base = 0

\* on canonical operands the two sides compute the same field element, the
\* one of add, sub, neg, mul, pow, inv and div above
C20_SidesAgree ==
    (pc \in FieldOps /\ call.a < MODULUS /\ call.b < MODULUS) =>
        LET x == Fp_from_u256(call.a)
            y == Fp_from_u256(call.b)
        IN  /\ pc = "add" => base = add(call.a, call.b) /\ Fp_to_u256(Fp_add(x, y)) = base
            /\ pc = "sub" => base = sub(call.a, call.b) /\ Fp_to_u256(Fp_sub(x, y)) = base
            /\ pc = "neg" => base = neg(call.a) /\ Fp_to_u256(Fp_neg(x)) = base
            /\ pc = "mul" => base = mul(call.a, call.b) /\ Fp_to_u256(Fp_mul(x, y)) = base
            /\ pc = "pow" => base = pow(call.a, call.b) /\ Fp_to_u256(Fp_pow(x, call.b)) = base
            /\ pc = "inv" => base = inv(call.a) /\ Fp_to_u256(Fp_inv(x)) = base
            /\ pc = "div" => base = div(call.a, call.b) /\ Fp_to_u256(Fp_div(x, y)) = base

\* C21: for all canonical field elements a, b, c: a + (-a) = 0; a * inv(a) = 1
\* when a # 0; (a*b)/b = a when b # 0; a*b = b*a; (a*b)*c = a*(b*c);
\* a*(b+c) = a*b + a*c, in the contract's Fp and in the prover's BN254Field.
C21_FieldLaws ==
    (/\ pc \in FieldLaws
     /\ pc = "inverse" => call.a # 0
     /\ pc = "division" => call.b # 0)
        => outcome.lhs = outcome.rhs /\ base.lhs = base.rhs

\* (p-1) * (p-2) divided by p-2 gives p-1 back, on both sides
C21_Witness ==
    /\ pc = "division" /\ call.a = MODULUS - 1 /\ call.b = MODULUS - 2
    /\ outcome.lhs = Fp_from_u256(MODULUS - 1) /\ outcome.rhs = outcome.lhs
    /\ base.lhs = MODULUS - 1 /\ base.rhs = MODULUS - 1

\* C22: FFT and IFFT are mutual inverses: for every vector v of field elements
\* of length 2^k, k within the two-adicity of the field, ifft(fft(v)) = v and
\* fft(ifft(v)) = v.
C22_FftRoundTrip ==
    /\ pc \in {"fft", "fft_ifft", "ifft", "ifft_fft"} =>
           domain_generator_asserts(call.log_size) /\ Len(outcome) = Len(call.v)
    /\ pc \in {"fft_ifft", "ifft_fft"} => base = call.v

\* the vector i -> 31 * i + (p - 1) of length 8: its transform is another
\* vector, and the inverse transform gives it back
C22_Witness ==
    /\ pc = "fft_ifft" /\ call.log_size = MaxFftLog
    /\ call.v[1] = MODULUS - 1 /\ call.v[2] = 30
    /\ outcome # call.v /\ base = call.v

\* the transition zerofier at the point of the call
ZerofierAtX ==
    transition_zerofier_at(call.x, Pow2(call.log_trace_len), domain_generator(call.log_trace_len))

CommitmentStep == sub(At(call.next, 5), At(call.current, 5))

\* C23: the fifth transition constraint TC4 evaluates to next.commitment -
\* current.commitment in the verifier's AIR evaluation, in the prover's OOD
\* composition and in the prover's LDE composition (read off each composition
\* with the fifth alpha alone: the value is TC4 / zerofier), so it is non-zero
\* whenever the commitment differs between a row and its successor.
C23_TC4IsCommitmentStep ==
    /\ pc \in {"verifier", "at_z", "on_lde"} => air.tc[5] = CommitmentStep
    /\ (pc = "on_lde" /\ call.alphas = <<0, 0, 0, 0, 1, 0, 0, 0, 0>> /\ ZerofierAtX # 0) =>
           /\ air.verifier = div(CommitmentStep, ZerofierAtX)
           /\ air.at_z = div(CommitmentStep, ZerofierAtX)
           /\ air.on_lde = div(CommitmentStep, ZerofierAtX)

\* the prover's LDE composer alone computes TC4 as the commitment step
C23_LdeTC4 ==
    (pc = "on_lde" /\ call.alphas = <<0, 0, 0, 0, 1, 0, 0, 0, 0>> /\ ZerofierAtX # 0) =>
        air.on_lde = div(CommitmentStep, ZerofierAtX)

\* C24: for identical current-row and next-row column values, evaluation
\* point, public inputs and nine alphas, the prover's LDE composer, the
\* prover's scalar composition at z and the verifier's recomposition return the
\* same field element.
C24_OneFormula ==
    pc = "on_lde" => air.verifier = air.at_z /\ air.at_z = air.on_lde

\* the verifier's recomposition and the prover's scalar composition agree
C24_ScalarAgrees == pc \in {"at_z", "on_lde"} => air.verifier = air.at_z

\* the three agree when the commitment is the same in both rows and the point
\* is not the last trace-domain element
C24_AgreeOnConstantCommitment ==
    (/\ pc = "on_lde" /\ CommitmentStep = 0
     /\ call.x # pow(domain_generator(call.log_trace_len), Pow2(call.log_trace_len) - 1))
        => air.verifier = air.on_lde

\* the recomposition inside verify_sharpe_parsed_proof is that formula, on the
\* parsed OOD rows, the drawn point and the drawn alphas
C24_FormulaInVerifier ==
    (parsed.tag = "Some" /\ Len(air.alphas) = 9) =>
        air.composition_at_z =
            verifier_composition_at_z(parsed.trace_ood_evals, parsed.trace_ood_evals_next, air.z,
                parsed.log_trace_len, map_from_u256(SubArr(call.public_inputs, 0, 4)), air.alphas)

\* the elements of an array
Elements(arr) == { arr[i] : i \in 1..Len(arr) }

\* the positions (0-based) of the LDE domain at which the composer meets a
\* vanishing denominator: x - g^(N-1) = 0, x - g^0 = 0 or x^N - 1 = 0
VanishingPositions(w) ==
    LET lde_domain == get_domain(w.log_trace_len + BLOWUP_LOG)
        trace_domain_last == pow(domain_generator(w.log_trace_len), w.trace.len - 1)
    IN  { i \in 0..(Len(lde_domain) - 1) :
            \/ sub(At(lde_domain, i), trace_domain_last) = 0
            \/ sub(At(lde_domain, i), 1) = 0
            \/ sub(pow(At(lde_domain, i), w.trace.len), 1) = 0 }

\* C25: no LDE evaluation point used by the composer coincides with a
\* trace-domain element, so on an honest run the composer never divides by a
\* vanishing zerofier or boundary denominator and its substitute-0 branches
\* are never taken.
C25_LdeOffTraceDomain ==
    (pc = "proving" /\ prover.stage = "compose") =>
        /\ Elements(get_domain(prover.log_trace_len + BLOWUP_LOG))
               \cap Elements(get_domain(prover.log_trace_len)) = {}
        /\ VanishingPositions(prover) = {}

\* every BLOWUP_FACTOR-th LDE point is a trace-domain element, and there the
\* composer's value is the substitute
C25_TraceDomainInsideLde ==
    (pc = "proving" /\ prover.stage = "compose") =>
        /\ VanishingPositions(prover) = { BLOWUP_FACTOR * k : k \in 0..(prover.trace.len - 1) }
        /\ At(prover.composition_lde, BLOWUP_FACTOR * (prover.trace.len - 1)) = 0

\* the honest arrays were verified and accepted
HonestAccepted ==
    /\ pc = "done" /\ outcome = "true" /\ origin.rewrite.kind = "none"
    /\ prover.stage = "done" /\ parsed.tag = "Some"

ProverIndices(q) ==
    query_layer_indices(prover.fri_commitment.layers,
                        [idx |-> prover.query_indices[q], l |-> 1, used |-> << >>])

VerifierIndices(q) ==
    verify_layer_indices(fri.params,
                         [query_idx |-> parsed.query_indices[q], layer |-> 0, used |-> << >>])

\* C26: for every query and every FRI layer the index used by the verifier
\* equals the index used by the prover: both start from the drawn LDE index and
\* replace it by index mod (layer domain size / 2) after each layer, so at
\* every layer the index is below the layer's domain size, and the
\* authenticated leaf, the Merkle direction bits and the opened value refer to
\* the same position.
C26_SameIndices ==
    HonestAccepted =>
        \A q \in 1..Len(prover.query_indices) :
            LET layers == prover.fri_commitment.layers
                p == ProverIndices(q)
                v == VerifierIndices(q)
            IN  /\ p = v /\ Len(v) = Len(layers) /\ Len(v) = fri.params.num_layers
                /\ \A l \in 1..Len(v) :
                       LET depth == fri.params.log_domain_size - (l - 1)
                       IN  /\ v[l] < Pow2(depth)
                           /\ Pow2(depth) = Len(layers[l].evaluations)
                           /\ l < Len(v) => v[l + 1] = v[l] % (Pow2(depth) \div 2)
                           /\ MerkleTree_auth_path(layers[l].tree, p[l]).indices
                                  = index_bits(v[l], depth)
                           /\ At(parsed.query_values, (q - 1) * 2 * Len(v) + 2 * (l - 1))
                                  = At(layers[l].evaluations, p[l])

\* an accepted proof with a query whose index is reduced between layers
C26_Witness ==
    /\ HonestAccepted
    /\ \E q \in 1..Len(prover.query_indices) :
           /\ Len(VerifierIndices(q)) >= 2
           /\ VerifierIndices(q)[2] < VerifierIndices(q)[1]
           /\ ProverIndices(q) = VerifierIndices(q)

\* the query-index loop is running and every index of the domain is already in
\* the output slice, so that no draw can be unique
DomainExhausted ==
    /\ pc = "drawing"
    /\ fri.written < fri.count
    /\ fri.written >= Pow2(fri.params.log_domain_size)
    /\ \A index \in 0..(Pow2(fri.params.log_domain_size) - 1) :
           \E i \in 0..(fri.written - 1) : At(fri.derived_indices, i) = index

\* C27: verification terminates for every proof the parser accepts: while the
\* query-index loop of draw_queries_into runs, an index of the domain that is
\* not yet in the output remains to be drawn, so the loop finishes after
\* finitely many draws, also when num_queries exceeds the LDE domain size
\* 2^(log_trace_len + 2).
C27_DrawLoopCanFinish ==
    (pc = "drawing" /\ fri.written < fri.count) =>
        \E index \in 0..(Pow2(fri.params.log_domain_size) - 1) :
            \A i \in 0..(fri.written - 1) : At(fri.derived_indices, i) # index

\* once the domain is exhausted every further iteration draws and rejects: the
\* loop stays where it is, and only the transcript advances
C27_ExhaustedForever ==
    [][DomainExhausted =>
          /\ DomainExhausted'
          /\ fri' = fri /\ pc' = pc /\ outcome' = outcome
          /\ channel'.counter = channel.counter + 1]_vars

\* the loop runs for a parsed proof that asks for more queries than the domain
\* has points
C27_MoreQueriesThanPoints ==
    /\ pc = "drawing" /\ parsed.tag = "Some"
    /\ fri.params.num_queries > Pow2(fri.params.log_domain_size)
    /\ fri.params.num_queries <= MAX_QUERIES
    /\ DomainExhausted

\* the layer roots of the proof are the roots of the trees the prover committed
RootsAsCommitted ==
    /\ Len(prover.fri_commitment.layers) = fri.params.num_layers
    /\ \A l \in 1..fri.params.num_layers :
           /\ parsed.fri_layer_commitments[l]
                  = MerkleTree_root(prover.fri_commitment.layers[l].tree)
           /\ Len(prover.fri_commitment.layers[l].evaluations)
                  = Pow2(fri.params.log_domain_size - (l - 1))

\* the word committed under layer l's root at the partner position of query q
CommittedPartner(q, l) ==
    LET evaluations == prover.fri_commitment.layers[l + 1].evaluations
        size == Len(evaluations)
        idx == At(parsed.query_indices, q) % size
    IN  At(evaluations, (idx + size \div 2) % size)

\* the f(-x) word of the proof that enters the fold of query q at layer l
FoldPartner(q, l) ==
    At(parsed.query_values, q * (fri.params.num_layers * 2) + l * 2 + 1)

FriAccepted ==
    /\ FriReturned /\ outcome = "true"
    /\ parsed.tag = "Some" /\ prover.stage = "done"

\* C28: verify_fri accepts only if, for every query and every layer, the f(-x)
\* value used in the fold is the value committed under that layer's Merkle
\* root at the partner position (index plus or minus half the layer domain); a
\* proof whose f(-x) word was replaced by another value that keeps the fold
\* equation true is rejected.
C28_PartnerAuthenticated ==
    (FriAccepted /\ RootsAsCommitted) =>
        \A q \in 0..(fri.params.num_queries - 1), l \in 0..(fri.params.num_layers - 1) :
            FoldPartner(q, l) = CommittedPartner(q, l)

\* what the verifier does establish: the f(x) word of every query and layer is
\* the committed one, and the fold of the two words of the proof meets the next
\* layer or the final polynomial
C28_FxAuthenticated ==
    (FriAccepted /\ RootsAsCommitted) =>
        \A q \in 0..(fri.params.num_queries - 1), l \in 0..(fri.params.num_layers - 1) :
            /\ LayerCheck(q, l)
            /\ At(parsed.query_values, q * (fri.params.num_layers * 2) + l * 2)
                   = At(prover.fri_commitment.layers[l + 1].evaluations,
                        At(parsed.query_indices, q)
                            % Len(prover.fri_commitment.layers[l + 1].evaluations))

\* an accepted proof whose last f(-x) is not the committed word
C28_ForgedPartnerAccepted ==
    /\ FriAccepted /\ RootsAsCommitted
    /\ origin.rewrite.kind = "forge" /\ origin.rewrite.name = "shift"
    /\ FoldPartner(0, fri.params.num_layers - 1)
           # CommittedPartner(0, fri.params.num_layers - 1)

\* the size of the final FRI layer's domain, 2^(log_trace_len + 2 - num_fri_layers)
FinalDomainSize == Pow2(fri.params.log_domain_size - fri.params.num_layers)

\* the commit calls the verifier's channel has absorbed
CommitPositions(ch) == {i \in 1..Len(ch.log) : ch.log[i][1] = "commit"}

\* C29: the verifier bounds the final polynomial: a proof whose fri_final_poly
\* has more coefficients than the final FRI layer's domain size
\* 2^(log_trace_len + 2 - num_fri_layers) is not accepted, so the transcript
\* commits made during verification (the trace root, the composition root, one
\* root per layer, one per final coefficient) are bounded by the parsed
\* metadata.
C29_FinalPolyBounded ==
    (FriReturned /\ outcome = "true" /\ parsed.tag = "Some") =>
        /\ Len(parsed.fri_final_poly) <= FinalDomainSize
        /\ Cardinality(CommitPositions(channel)) <= 2 + fri.params.num_layers + FinalDomainSize

\* the commits of a returned verify_fri are the two roots, the layer roots and
\* every final coefficient of the proof, however many there are
C29_CommitsFollowProof ==
    (FriReturned /\ parsed.tag = "Some") =>
        Cardinality(CommitPositions(channel))
            = 2 + fri.params.num_layers + Len(parsed.fri_final_poly)

\* an accepted proof with one coefficient more than the final domain has points
C29_LongFinalPolyAccepted ==
    /\ FriReturned /\ outcome = "true" /\ parsed.tag = "Some"
    /\ origin.rewrite.kind = "forge" /\ origin.rewrite.name = "extend"
    /\ Len(parsed.fri_final_poly) = FinalDomainSize + 1

\* an accepted proof was submitted again with ood_values[pos] replaced by a
\* word of another field element, and the verifier has returned
OodWordChanged(pos) ==
    /\ pc = "done" /\ base = "true" /\ prover.stage = "done"
    /\ origin.rewrite.kind = "replace" /\ origin.rewrite.name = "ood_values"
    /\ origin.rewrite.pos = pos
    /\ from_u256(origin.rewrite.w)
           # from_u256(At(prove_sharpe_serialize(prover).ood_values, pos))
    /\ \A i \in 0..(OOD_LEN - 1) :
           i # pos => At(call.ood_values, i)
                         = At(prove_sharpe_serialize(prover).ood_values, i)

\* C30: every OOD word influences the verdict: for any accepted Sharpe proof,
\* changing any single one of the 13 ood_values (the commitment-column values
\* ood_values[5] and ood_values[11] included) to a different field element
\* makes the verifier return false.
C30_EveryOodWordInfluences ==
    \A pos \in 0..(OOD_LEN - 1) : OodWordChanged(pos) => outcome = "false"

\* the words the verifier reads: all but the two of the commitment column
C30_ReadWordsInfluence ==
    \A pos \in (0..(OOD_LEN - 1)) \ {5, 11} :
        OodWordChanged(pos) => (outcome = "false" /\ reason = "AIRFailure")

\* the two words of the commitment column change nothing
C30_CommitmentWordsIgnored ==
    \A pos \in {5, 11} : OodWordChanged(pos) => outcome = "true"

\* ood_values[11] was changed alone and the proof is accepted again, with the
\* two commitment-column words now different
C30_CommitmentWordAccepted ==
    /\ OodWordChanged(11) /\ outcome = "true"
    /\ At(call.ood_values, 11) # At(call.ood_values, 5)

====
